---- MODULE Spec2Model ----
(***************************************************************************)
(* A model of the quotation builder (Cotizador): the pricing engine        *)
(* (calculateTotals, and the per-item figures the editor, the preview and  *)
(* the PDF exporter derive), the folio numbering of documents, and the     *)
(* column registry.                                                        *)
(*                                                                         *)
(* JavaScript numbers are modelled as exact rationals plus the three       *)
(* non-finite values (NaN, +Infinity, -Infinity); rounding of binary       *)
(* floating point is not modelled.                                         *)
(***************************************************************************)
EXTENDS Integers, Sequences, FiniteSets, TLC

VARIABLES
    documentState,      \* App.tsx: the working document (useLocalStorageState 'documentState')
    activeCategoryId,   \* DocumentEditor: the category tab being edited (index into categories)
    companies,          \* App.tsx: the company profiles with their folio counters and prefixes
    activeCompanyId,    \* App.tsx: index of the active company
    currentView,        \* App.tsx: 'editor' | 'profile' | 'settings'
    columnDefinitions,  \* App.tsx: the column registry, key -> ColumnDefinition
    columnOrder,        \* insertion order of the registry's keys (Object.keys order)
    timeZone,           \* the runtime's local time zone, as hours east of UTC
    folioCall,          \* the call of generateFolio just made: <<>> or one record of arguments and result
    saveCall,           \* the call of handleSaveDocument just made: <<>> or one record of what it found
    lastRequest,        \* the request a handler has just answered: <<>> or one record of what it found and did
    requests,           \* the calls of the suggestion service that are in flight, in the order they started
    pdf                 \* App.tsx: the run of handleExportToPdf: its position, its page and what it has laid out

vars == <<documentState, activeCategoryId, companies, activeCompanyId, currentView,
          columnDefinitions, columnOrder, timeZone, folioCall, saveCall, lastRequest, requests, pdf>>

-----------------------------------------------------------------------------
(* Bounds of the model *)

MaxCategories == 2        \* categories of the document
MaxSubcategories == 2     \* subcategories of the whole document
MaxItems == 2             \* items of the whole document
MaxCompanies == 2         \* company profiles
MaxSequence == 2          \* the largest folio counter the settings form and new documents reach

-----------------------------------------------------------------------------
(* JavaScript numbers *)

Abs(n) == IF n < 0 THEN -n ELSE n

RECURSIVE Gcd(_, _)
Gcd(a, b) == IF b = 0 THEN a ELSE Gcd(b, a % b)

\* The number n/d (d # 0) in lowest terms with a positive denominator.
Rat(n, d) ==
    LET g == Gcd(Abs(n), Abs(d))
        s == IF d < 0 THEN -1 ELSE 1
    IN  [num |-> s * (n \div g), den |-> s * (d \div g)]

Int2Num(n) == [num |-> n, den |-> 1]
NaN == [num |-> 0, den |-> 0]
Infinity == [num |-> 1, den |-> 0]
NegInfinity == [num |-> -1, den |-> 0]
Zero == Int2Num(0)

IsNaN(a) == a.den = 0 /\ a.num = 0
IsFinite(a) == a.den # 0
Sign(a) == IF a.num > 0 THEN 1 ELSE IF a.num < 0 THEN -1 ELSE 0

\* a + b
Plus(a, b) ==
    IF IsNaN(a) \/ IsNaN(b) THEN NaN
    ELSE IF ~IsFinite(a) /\ ~IsFinite(b) THEN (IF a = b THEN a ELSE NaN)
    ELSE IF ~IsFinite(a) THEN a
    ELSE IF ~IsFinite(b) THEN b
    ELSE Rat(a.num * b.den + b.num * a.den, a.den * b.den)

\* a * b
Times(a, b) ==
    IF IsNaN(a) \/ IsNaN(b) THEN NaN
    ELSE IF ~IsFinite(a) \/ ~IsFinite(b)
         THEN (IF Sign(a) * Sign(b) = 0 THEN NaN
               ELSE IF Sign(a) * Sign(b) > 0 THEN Infinity ELSE NegInfinity)
    ELSE Rat(a.num * b.num, a.den * b.den)

\* a / b
Over(a, b) ==
    IF IsNaN(a) \/ IsNaN(b) THEN NaN
    ELSE IF ~IsFinite(a) /\ ~IsFinite(b) THEN NaN
    ELSE IF ~IsFinite(a) THEN (IF Sign(b) < 0 THEN Times(a, Int2Num(-1)) ELSE a)
    ELSE IF ~IsFinite(b) THEN Zero
    ELSE IF b.num = 0
         THEN (IF a.num = 0 THEN NaN ELSE IF a.num > 0 THEN Infinity ELSE NegInfinity)
    ELSE Rat(a.num * b.den, a.den * b.num)

\* a > b
Gt(a, b) ==
    IF IsNaN(a) \/ IsNaN(b) THEN FALSE
    ELSE IF ~IsFinite(a) THEN a = Infinity /\ b # Infinity
    ELSE IF ~IsFinite(b) THEN b = NegInfinity
    ELSE a.num * b.den > b.num * a.den

\* x || 0 on a number: 0 and NaN are falsy
OrZero(a) == IF IsNaN(a) \/ a = Zero THEN Zero ELSE a

\* A value held in an item field: a number, or a text (typed into a text or
\* select input, or returned by the suggestion service).
JsNumber(n) == [t |-> "number", n |-> Int2Num(n), s |-> ""]
JsString(str) == [t |-> "string", n |-> Zero, s |-> str]

\* the value read from a field that an object does not hold
Undefined == [t |-> "undefined", n |-> Zero, s |-> ""]

\* Number(x): a number is itself, false is 0, undefined is NaN; of the texts of the
\* model, "" is 0, "2" is 2 and every other text is NaN.
Number(x) ==
    IF x.t = "number" \/ x.t = "boolean" THEN x.n
    ELSE IF x.t = "undefined" THEN NaN
    ELSE IF x.s = "" THEN Zero
    ELSE IF x.s = "2" THEN Int2Num(2)
    ELSE NaN

Hundred == Int2Num(100)

-----------------------------------------------------------------------------
(* The document: categories, subcategories, items *)

\* The values the editor's inputs give the two priced fields in this model.
Quantities == {JsNumber(1), JsNumber(0 - 1)}
UnitPrices == {JsNumber(0), JsNumber(50)}
MarkupTypes == {"none", "percentage", "fixed"}
MarkupValues == {0, 10}
MarkupDistributions == {"proportional", "per-item"}

\* INITIAL_CATEGORIES, cut to its first name
INITIAL_CATEGORIES == <<"Mano de Obra">>

RECURSIVE SumSeq(_, _)
\* reduce((acc, x) => acc + f(x), 0) over a sequence of numbers
SumSeq(s, i) == IF i > Len(s) THEN Zero ELSE Plus(s[i], SumSeq(s, i + 1))

Sum(s) == SumSeq(s, 1)

\* (Number(item.quantity) || 0) * (Number(item.unitPrice) || 0)
ItemSubtotal(item) == Times(OrZero(Number(item.quantity)), OrZero(Number(item.unitPrice)))

\* the sum over the items of a subcategory
SubcategoryRawSubtotal(sub) == Sum([i \in 1..Len(sub.items) |-> ItemSubtotal(sub.items[i])])

\* categoryRawSubtotal: the sum over all items of all subcategories
CategoryRawSubtotal(category) ==
    Sum([j \in 1..Len(category.subcategories) |->
            SubcategoryRawSubtotal(category.subcategories[j])])

\* category.markupValue || 0
MarkupValueOf(category) == OrZero(Int2Num(category.markupValue))

\* categoryTotalWithMarkups of calculateTotals
CategoryTotalWithMarkups(category) ==
    LET raw == CategoryRawSubtotal(category)
    IN  IF category.markupType = "percentage"
        THEN Plus(raw, Times(raw, Over(MarkupValueOf(category), Hundred)))
        ELSE IF category.markupType = "fixed"
        THEN Plus(raw, MarkupValueOf(category))
        ELSE raw

\* CategoryTax without the category's applyVat gate
CategoryTax_NoApplyVatGate(doc, category) ==
    IF doc.showVat
    THEN Times(CategoryTotalWithMarkups(category), Over(OrZero(Int2Num(doc.vatRate)), Hundred))
    ELSE Zero

\* the tax calculateTotals adds for one category
CategoryTax(doc, category) ==
    IF doc.showVat /\ category.applyVat
    THEN Times(CategoryTotalWithMarkups(category), Over(OrZero(Int2Num(doc.vatRate)), Hundred))
    ELSE Zero

RECURSIVE TotalsLoop(_, _, _)
\* doc.categories.forEach of calculateTotals, from category i on, with the
\* accumulators subtotalWithMarkups and tax
TotalsLoop(doc, i, acc) ==
    IF i > Len(doc.categories) THEN acc
    ELSE LET category == doc.categories[i]
         IN  TotalsLoop(doc, i + 1,
                [subtotalWithMarkups |-> Plus(acc.subtotalWithMarkups, CategoryTotalWithMarkups(category)),
                 tax |-> Plus(acc.tax, CategoryTax(doc, category))])

calculateTotals(doc) ==
    LET acc == TotalsLoop(doc, 1, [subtotalWithMarkups |-> Zero, tax |-> Zero])
    IN  [subtotal |-> acc.subtotalWithMarkups,
         tax |-> acc.tax,
         total |-> Plus(acc.subtotalWithMarkups, acc.tax)]

-----------------------------------------------------------------------------
(* Per-item figures: the three places that compute them *)

\* formatCurrency: NaN is drawn as 0.00; a finite amount is rounded to two
\* decimals (half away from zero); the result is the number of cents drawn
\* (inf is TRUE for an infinite amount, which no rounding makes finite).
FormatCurrency(amount) ==
    IF IsNaN(amount) THEN [inf |-> FALSE, cents |-> 0]
    ELSE IF ~IsFinite(amount) THEN [inf |-> TRUE, cents |-> Sign(amount)]
    ELSE LET n == Abs(amount.num) * 100
             q == (2 * n + amount.den) \div (2 * amount.den)
         IN  [inf |-> FALSE, cents |-> Sign(amount) * q]

\* PreviewItemMarkup with the fixed markup given whole to every item
PreviewItemMarkup_WholePerItem(category, item, categoryRawSubtotal) ==
    LET itemSubtotal == ItemSubtotal(item)
    IN  IF category.markupType = "percentage"
        THEN Times(itemSubtotal, Over(MarkupValueOf(category), Hundred))
        ELSE IF category.markupType = "fixed"
        THEN (IF Gt(categoryRawSubtotal, Zero) THEN MarkupValueOf(category) ELSE Zero)
        ELSE Zero

\* PreviewItemMarkup applying a 'per-item' percentage markup as a flat amount per item
PreviewItemMarkup_ReadsDistribution(category, item, categoryRawSubtotal) ==
    LET itemSubtotal == ItemSubtotal(item)
    IN  IF category.markupType = "percentage"
        THEN (IF category.markupDistribution = "per-item"
              THEN MarkupValueOf(category)
              ELSE Times(itemSubtotal, Over(MarkupValueOf(category), Hundred)))
        ELSE IF category.markupType = "fixed"
        THEN (IF Gt(categoryRawSubtotal, Zero)
              THEN Times(Over(itemSubtotal, categoryRawSubtotal), MarkupValueOf(category))
              ELSE Zero)
        ELSE Zero

\* DocumentPreview, the 'markup' cell
PreviewItemMarkup(category, item, categoryRawSubtotal) ==
    LET itemSubtotal == ItemSubtotal(item)
    IN  IF category.markupType = "percentage"
        THEN Times(itemSubtotal, Over(MarkupValueOf(category), Hundred))
        ELSE IF category.markupType = "fixed"
        THEN (IF Gt(categoryRawSubtotal, Zero)
              THEN Times(Over(itemSubtotal, categoryRawSubtotal), MarkupValueOf(category))
              ELSE Zero)
        ELSE Zero

\* PreviewItemVat charging VAT on the item subtotal alone, without its markup
PreviewItemVat_NoMarkup(doc, category, item, categoryRawSubtotal) ==
    IF doc.showVat /\ category.applyVat
    THEN Times(ItemSubtotal(item), Over(Int2Num(doc.vatRate), Hundred))
    ELSE Zero

\* DocumentPreview, the 'vat' cell
PreviewItemVat(doc, category, item, categoryRawSubtotal) ==
    LET itemSubtotal == ItemSubtotal(item)
        itemMarkup ==
            IF category.markupType = "percentage"
            THEN Times(itemSubtotal, Over(MarkupValueOf(category), Hundred))
            ELSE IF category.markupType = "fixed"
            THEN (IF Gt(categoryRawSubtotal, Zero)
                  THEN Times(Over(itemSubtotal, categoryRawSubtotal), MarkupValueOf(category))
                  ELSE Zero)
            ELSE Zero
    IN  IF doc.showVat /\ category.applyVat
        THEN Times(Plus(itemSubtotal, itemMarkup), Over(Int2Num(doc.vatRate), Hundred))
        ELSE Zero

\* handleExportToPdf, the 'markup' cell
ExportItemMarkup(category, item, categoryRawSubtotal) ==
    LET itemSubtotal == ItemSubtotal(item)
    IN  IF category.markupType = "percentage"
        THEN Times(itemSubtotal, Over(MarkupValueOf(category), Hundred))
        ELSE IF category.markupType = "fixed"
        THEN (IF Gt(categoryRawSubtotal, Zero)
              THEN Times(Over(itemSubtotal, categoryRawSubtotal), MarkupValueOf(category))
              ELSE Zero)
        ELSE Zero

\* handleExportToPdf, the 'vat' cell
ExportItemVat(doc, category, item, categoryRawSubtotal) ==
    LET itemSubtotal == ItemSubtotal(item)
        itemMarkup ==
            IF category.markupType = "percentage"
            THEN Times(itemSubtotal, Over(MarkupValueOf(category), Hundred))
            ELSE IF category.markupType = "fixed"
            THEN (IF Gt(categoryRawSubtotal, Zero)
                  THEN Times(Over(itemSubtotal, categoryRawSubtotal), MarkupValueOf(category))
                  ELSE Zero)
            ELSE Zero
    IN  IF doc.showVat /\ category.applyVat
        THEN Times(Plus(itemSubtotal, itemMarkup), Over(Int2Num(doc.vatRate), Hundred))
        ELSE Zero

\* EditorItemMarkup without the guard on the raw subtotal
EditorItemMarkup_NoGuard(activeCategory, item, activeCategoryRawSubtotal) ==
    LET itemSubtotal == ItemSubtotal(item)
    IN  IF activeCategory.markupType = "percentage"
        THEN Times(itemSubtotal, Over(MarkupValueOf(activeCategory), Hundred))
        ELSE IF activeCategory.markupType = "fixed"
        THEN Times(Over(itemSubtotal, activeCategoryRawSubtotal), MarkupValueOf(activeCategory))
        ELSE Zero

\* DocumentEditor, the read-only 'markup' cell of the active category
EditorItemMarkup(activeCategory, item, activeCategoryRawSubtotal) ==
    LET itemSubtotal == ItemSubtotal(item)
    IN  IF activeCategory.markupType = "percentage"
        THEN Times(itemSubtotal, Over(MarkupValueOf(activeCategory), Hundred))
        ELSE IF activeCategory.markupType = "fixed"
        THEN (IF Gt(activeCategoryRawSubtotal, Zero)
              THEN Times(Over(itemSubtotal, activeCategoryRawSubtotal), MarkupValueOf(activeCategory))
              ELSE Zero)
        ELSE Zero

\* DocumentEditor, the read-only 'vat' cell of the active category
EditorItemVat(doc, activeCategory, item, activeCategoryRawSubtotal) ==
    LET itemSubtotal == ItemSubtotal(item)
        itemMarkup ==
            IF activeCategory.markupType = "percentage"
            THEN Times(itemSubtotal, Over(MarkupValueOf(activeCategory), Hundred))
            ELSE IF activeCategory.markupType = "fixed"
            THEN (IF Gt(activeCategoryRawSubtotal, Zero)
                  THEN Times(Over(itemSubtotal, activeCategoryRawSubtotal), MarkupValueOf(activeCategory))
                  ELSE Zero)
            ELSE Zero
    IN  IF doc.showVat /\ activeCategory.applyVat
        THEN Times(Plus(itemSubtotal, itemMarkup), Over(Int2Num(doc.vatRate), Hundred))
        ELSE Zero

\* all items of a category, subcategory after subcategory
RECURSIVE FlattenFrom(_, _)
FlattenFrom(subcategories, j) ==
    IF j > Len(subcategories) THEN <<>>
    ELSE subcategories[j].items \o FlattenFrom(subcategories, j + 1)

CategoryItems(category) == FlattenFrom(category.subcategories, 1)

\* c.subcategories.some(s => s.items.length > 0): the categories both renderers show
HasItems(category) == \E j \in 1..Len(category.subcategories) : Len(category.subcategories[j].items) > 0

\* categories.filter(c => c.subcategories.some(s => s.items.length > 0))
ShownCategories(doc) == SelectSeq(doc.categories, HasItems)

\* <<x>> when a row is drawn with the amount x, <<>> when the row is not drawn
Row(drawn, amount) == IF drawn THEN <<FormatCurrency(amount)>> ELSE <<>>

\* DocumentPreview: the item cells and the totals block of one shown category
PreviewCategory(doc, category) ==
    LET categoryRawSubtotal == CategoryRawSubtotal(category)
        categorySubtotal == CategoryTotalWithMarkups(category)
        categoryVat == IF doc.showVat /\ category.applyVat
                       THEN Times(categorySubtotal, Over(Int2Num(doc.vatRate), Hundred))
                       ELSE Zero
        categoryTotalWithVat == Plus(categorySubtotal, categoryVat)
        vatRow == doc.showVat /\ category.applyVat /\ Gt(categoryVat, Zero)
        items == CategoryItems(category)
    IN  [items |-> [k \in 1..Len(items) |->
                        [total |-> FormatCurrency(ItemSubtotal(items[k])),
                         markup |-> FormatCurrency(PreviewItemMarkup(category, items[k], categoryRawSubtotal)),
                         vat |-> FormatCurrency(PreviewItemVat(doc, category, items[k], categoryRawSubtotal))]],
         block |-> TRUE,
         subtotal |-> Row(TRUE, categorySubtotal),
         vat |-> Row(vatRow, categoryVat),
         total |-> Row(vatRow \/ Gt(categorySubtotal, Zero), categoryTotalWithVat)]

\* handleExportToPdf: the item cells and the totals block of one shown category
ExportCategory(doc, category) ==
    LET categoryRawSubtotal == CategoryRawSubtotal(category)
        currentCategoryRawSubtotal == CategoryRawSubtotal(category)
        block == Gt(currentCategoryRawSubtotal, Zero)
        categorySubtotalWithMarkups == CategoryTotalWithMarkups(category)
        categoryVat == IF doc.showVat /\ category.applyVat
                       THEN Times(categorySubtotalWithMarkups, Over(Int2Num(doc.vatRate), Hundred))
                       ELSE Zero
        categoryTotalWithVat == Plus(categorySubtotalWithMarkups, categoryVat)
        hasVatRow == doc.showVat /\ category.applyVat /\ Gt(categoryVat, Zero)
        items == CategoryItems(category)
    IN  [items |-> [k \in 1..Len(items) |->
                        [total |-> FormatCurrency(ItemSubtotal(items[k])),
                         markup |-> FormatCurrency(ExportItemMarkup(category, items[k], categoryRawSubtotal)),
                         vat |-> FormatCurrency(ExportItemVat(doc, category, items[k], categoryRawSubtotal))]],
         block |-> block,
         subtotal |-> Row(block, categorySubtotalWithMarkups),
         vat |-> Row(block /\ hasVatRow, categoryVat),
         total |-> Row(block, categoryTotalWithVat)]

\* the document totals both renderers draw from calculateTotals
DocumentTotalsRows(doc, totals) ==
    [subtotal |-> Row(TRUE, totals.subtotal),
     tax |-> Row(doc.showVat /\ Gt(totals.tax, Zero), totals.tax),
     total |-> Row(TRUE, totals.total)]

\* everything monetary the preview shows
PreviewFigures(doc) ==
    LET shown == ShownCategories(doc)
    IN  [categories |-> [i \in 1..Len(shown) |-> PreviewCategory(doc, shown[i])],
         totals |-> DocumentTotalsRows(doc, calculateTotals(doc))]

\* everything monetary the exporter draws
ExportFigures(doc) ==
    LET shown == ShownCategories(doc)
    IN  [categories |-> [i \in 1..Len(shown) |-> ExportCategory(doc, shown[i])],
         totals |-> DocumentTotalsRows(doc, calculateTotals(doc))]

-----------------------------------------------------------------------------
(* The column registry *)

\* Texts that the program takes apart (keys, labels, prefixes, folios) are
\* sequences of one-character strings.
K_description == <<"d","e","s","c","r","i","p","t","i","o","n">>
K_concept == <<"c","o","n","c","e","p","t">>
K_unit == <<"u","n","i","t">>
K_quantity == <<"q","u","a","n","t","i","t","y">>
K_unitPrice == <<"u","n","i","t","P","r","i","c","e">>
K_markup == <<"m","a","r","k","u","p">>
K_vat == <<"v","a","t">>
K_total == <<"t","o","t","a","l">>

DataTypes == {"string", "number", "date", "time", "boolean", "image"}
InputTypes == {"text", "textarea", "number", "select", "date", "time", "checkbox", "file"}

COMPATIBLE_INPUT_TYPES ==
    [dt \in DataTypes |->
        CASE dt = "string" -> <<"text", "textarea", "select">>
          [] dt = "number" -> <<"number", "select">>
          [] dt = "date" -> <<"date">>
          [] dt = "time" -> <<"time">>
          [] dt = "boolean" -> <<"checkbox">>
          [] dt = "image" -> <<"file">>]

\* array.includes(x)
Includes(array, x) == \E i \in 1..Len(array) : array[i] = x

ColumnDefinition(label, default, isEditable, dataType, inputType, options) ==
    [label |-> label, default |-> default, isEditable |-> isEditable,
     dataType |-> dataType, inputType |-> inputType, options |-> options]

INITIAL_COLUMN_ORDER ==
    <<K_description, K_concept, K_unit, K_quantity, K_unitPrice, K_markup, K_vat, K_total>>

INITIAL_COLUMN_DEFINITIONS ==
    [k \in {INITIAL_COLUMN_ORDER[i] : i \in 1..Len(INITIAL_COLUMN_ORDER)} |->
        CASE k = K_description -> ColumnDefinition(<<"D","e","s","c","r","i","p","c","i","ó","n">>, TRUE, TRUE, "string", "textarea", <<>>)
          [] k = K_concept -> ColumnDefinition(<<"C","o","n","c","e","p","t","o">>, FALSE, TRUE, "string", "text", <<>>)
          [] k = K_unit -> ColumnDefinition(<<"U","n","i","d","a","d">>, FALSE, TRUE, "string", "select",
                                            <<"Pza", "Kg", "m", "m²", "L", "Servicio", "Jornal">>)
          [] k = K_quantity -> ColumnDefinition(<<"C","a","n","t","i","d","a","d">>, TRUE, TRUE, "number", "number", <<>>)
          [] k = K_unitPrice -> ColumnDefinition(<<"P","r","e","c","i","o"," ","U","n","i","t",".">>, TRUE, TRUE, "number", "number", <<>>)
          [] k = K_markup -> ColumnDefinition(<<"A","u","m","e","n","t","o">>, FALSE, FALSE, "number", "number", <<>>)
          [] k = K_vat -> ColumnDefinition(<<"I","V","A">>, FALSE, FALSE, "number", "number", <<>>)
          [] k = K_total -> ColumnDefinition(<<"T","o","t","a","l">>, TRUE, FALSE, "number", "number", <<>>)]

\* defaultVisibleColumns: each column of the registry with its 'default' flag
defaultVisibleColumns(defs) == [key \in DOMAIN defs |-> defs[key].default]

\* createInitialDocumentState: one category per initial name
InitialCategory(name) ==
    [name |-> name,
     subcategories |-> <<[items |-> <<>>]>>,
     visibleColumns |-> defaultVisibleColumns(INITIAL_COLUMN_DEFINITIONS),
     applyVat |-> TRUE,
     markupApplications |-> 0,
     markupType |-> "none",
     markupValue |-> 0,
     markupDistribution |-> "proportional"]

\* NewItemValue without the case of the select input
NewItemValue_NoSelect(key, def) ==
    IF key = K_quantity THEN JsNumber(1)
    ELSE IF def.dataType = "number" THEN JsNumber(0)
    ELSE IF def.dataType = "boolean" THEN [t |-> "boolean", n |-> Zero, s |-> ""]
    ELSE JsString("")

\* the value handleAddItems gives a new item under one column key
NewItemValue(key, def) ==
    IF key = K_quantity THEN JsNumber(1)
    ELSE IF def.dataType = "number" THEN JsNumber(0)
    ELSE IF def.dataType = "boolean" THEN [t |-> "boolean", n |-> Zero, s |-> ""]
    ELSE IF def.inputType = "select"
         THEN JsString(IF Len(def.options) > 0 THEN def.options[1] ELSE "")
    ELSE JsString("")

\* the item handleAddItems creates: a value under every key of the registry.
\* The model keeps the values of the two priced fields apart from the values
\* of the other keys and, in 'keys', the keys under which the item stores a
\* value.
NewItem(defs) ==
    [quantity |-> NewItemValue(K_quantity, defs[K_quantity]),
     unitPrice |-> NewItemValue(K_unitPrice, defs[K_unitPrice]),
     others |-> [key \in DOMAIN defs \ {K_quantity, K_unitPrice} |-> NewItemValue(key, defs[key])],
     keys |-> DOMAIN defs]

-----------------------------------------------------------------------------
(* Folios *)

Digits == <<"0", "1", "2", "3", "4", "5", "6", "7", "8", "9">>
IsDigit(c) == \E i \in 1..Len(Digits) : Digits[i] = c
DigitValue(c) == (CHOOSE i \in 1..Len(Digits) : Digits[i] = c) - 1

RECURSIVE toString(_)
\* String(n), n.toString() of a non-negative integer
toString(n) ==
    IF n < Len(Digits) THEN <<Digits[n + 1]>>
    ELSE toString(n \div Len(Digits)) \o <<Digits[(n % Len(Digits)) + 1]>>

RECURSIVE padStart(_, _, _)
\* str.padStart(targetLength, padString) with a one-character padString
padStart(str, targetLength, padString) ==
    IF Len(str) >= targetLength THEN str
    ELSE padStart(<<padString>> \o str, targetLength, padString)

\* str.slice(-2)
SliceLast2(str) == IF Len(str) <= 2 THEN str ELSE SubSeq(str, Len(str) - 1, Len(str))

RECURSIVE indexOf(_, _, _)
\* the first position from i on at which str holds the character c, 0 if none
indexOf(str, c, i) ==
    IF i > Len(str) THEN 0
    ELSE IF str[i] = c THEN i
    ELSE indexOf(str, c, i + 1)

RECURSIVE SplitAt(_, _, _)
SplitAt(str, separator, i) ==
    IF i = 0 THEN <<str>>
    ELSE <<SubSeq(str, 1, i - 1)>>
         \o SplitAt(SubSeq(str, i + 1, Len(str)), separator,
                    indexOf(SubSeq(str, i + 1, Len(str)), separator, 1))

\* str.split(separator) with a one-character separator
split(str, separator) == SplitAt(str, separator, indexOf(str, separator, 1))

RECURSIVE ParseDigits(_, _, _)
\* the value of the longest run of digits of str from position i, after acc
ParseDigits(str, i, acc) ==
    IF i > Len(str) \/ ~IsDigit(str[i]) THEN acc
    ELSE ParseDigits(str, i + 1, acc * Len(Digits) + DigitValue(str[i]))

\* parseInt(str, 10): the leading digits of str after an optional sign, NaN
\* when no digit is there (the texts of the model carry no blanks)
parseInt(str) ==
    LET signed == Len(str) > 0 /\ str[1] \in {"-", "+"}
        digits == IF signed THEN Tail(str) ELSE str
    IN  IF Len(digits) = 0 \/ ~IsDigit(digits[1]) THEN NaN
        ELSE Int2Num((IF signed /\ str[1] = "-" THEN -1 ELSE 1) * ParseDigits(digits, 1, 0))

\* A Date is the instant [year, month, day, hour], in UTC.
IsLeapYear(year) == (year % 4 = 0 /\ year % 100 # 0) \/ year % 400 = 0

DaysInMonth(year, month) ==
    IF month = 2 THEN (IF IsLeapYear(year) THEN 29 ELSE 28)
    ELSE IF month \in {4, 6, 9, 11} THEN 30 ELSE 31

RECURSIVE DaysBeforeMonth(_, _)
DaysBeforeMonth(year, month) ==
    IF month = 1 THEN 0
    ELSE DaysBeforeMonth(year, month - 1) + DaysInMonth(year, month - 1)

\* date.getTime() - Date.UTC(year, 0, 1), in hours
HoursIntoYear(date) ==
    24 * (DaysBeforeMonth(date.year, date.month) + date.day - 1) + date.hour

\* new Date(year, 0, 0).getTime() - Date.UTC(year, 0, 1), in hours: the
\* constructor takes LOCAL time, so this is local midnight of 31 December of
\* the year before, which is 24 + timeZone hours before the UTC new year.
LocalYearStart(tz) == 0 - 24 - tz

getJulianDate(date, tz) ==
    LET diff == HoursIntoYear(date) - LocalYearStart(tz)
        oneDay == 24
        dayOfYear == diff \div oneDay
        year == SliceLast2(toString(date.year))
    IN  year \o padStart(toString(dayOfYear), 3, "0")

generateFolio(prefix, sequence, date, tz) ==
    LET sequencePart == padStart(toString(sequence), 6, "0")
        julianDate == getJulianDate(date, tz)
    IN  prefix \o sequencePart \o <<"-">> \o julianDate

-----------------------------------------------------------------------------
(* Companies and the working document *)

\* DOCUMENT_TYPES, cut to two of its six types
DOCUMENT_TYPES == {"Cotización Formal", "Factura"}

P_COT == <<"C", "O", "T", "-">>
P_FAC == <<"F", "A", "C", "-">>

initialFolioCounters == [type \in DOCUMENT_TYPES |-> 1]

initialFolioPrefixes ==
    [type \in DOCUMENT_TYPES |-> IF type = "Cotización Formal" THEN P_COT ELSE P_FAC]

INITIAL_COMPANY_STATE ==
    [folioCounters |-> initialFolioCounters, folioPrefixes |-> initialFolioPrefixes]

\* `${docType.substring(0, 3).toUpperCase()}-`
DocTypePrefix(docType) == IF docType = "Cotización Formal" THEN P_COT ELSE P_FAC

\* the moments 'new Date()' returns in the model, and the dates of the date picker
Dates == {[year |-> 2024, month |-> 3, day |-> 5], [year |-> 2024, month |-> 1, day |-> 1]}
Hours == {0, 18}
Nows == {[year |-> d.year, month |-> d.month, day |-> d.day, hour |-> h] : d \in Dates, h \in Hours}
TimeZones == {0 - 6, 0}

\* creationDate.toISOString().split('T')[0]: the UTC calendar date of a moment
IsoDate(now) == [year |-> now.year, month |-> now.month, day |-> now.day]

\* new Date(Date.UTC(year, month - 1, day))
UtcMidnight(date) == [year |-> date.year, month |-> date.month, day |-> date.day, hour |-> 0]

\* crypto.randomUUID(): an id that no request in flight refers to
FreshId ==
    CHOOSE id \in 1..(Len(requests) + 1) : \A i \in 1..Len(requests) : requests[i].document # id

\* The field 'sequence' of the document is not a field of the program's
\* DocumentState: it records the sequence number that the document's docNumber
\* was last generated with.
createInitialDocumentState(company, now, tz) ==
    LET docType == "Cotización Formal"
        sequence == IF company.folioCounters[docType] = 0 THEN 1
                    ELSE company.folioCounters[docType]
        prefix == IF company.folioPrefixes[docType] = <<>> THEN P_COT
                  ELSE company.folioPrefixes[docType]
    IN  [id |-> FreshId,
         docType |-> docType,
         date |-> IsoDate(now),
         docNumber |-> generateFolio(prefix, sequence, now, tz),
         sequence |-> sequence,
         categories |-> [i \in 1..Len(INITIAL_CATEGORIES) |-> InitialCategory(INITIAL_CATEGORIES[i])],
         showVat |-> TRUE,
         vatRate |-> 16,
         description |-> "",
         paymentPlan |-> [enabled |-> FALSE, downPayment |-> Zero, terms |-> <<>>,
                          baseInterestRate |-> Zero, riskFactor |-> Zero, termIncrementRate |-> Zero],
         thirdPartyTickets |-> <<>>]

\* the effect's last step: set the docNumber when the regenerated one differs
SetFolio(doc, newFolio, sequence) ==
    IF newFolio # doc.docNumber
    THEN [doc EXCEPT !.docNumber = newFolio, !.sequence = sequence]
    ELSE doc

\* the effect once the sequence is parsed
RegenerateWith(doc, company, tz, sequence) ==
    IF IsNaN(sequence) THEN doc
    ELSE LET prefix == IF company.folioPrefixes[doc.docType] = <<>>
                       THEN DocTypePrefix(doc.docType)
                       ELSE company.folioPrefixes[doc.docType]
             docDate == UtcMidnight(doc.date)
         IN  SetFolio(doc, generateFolio(prefix, sequence.num, docDate, tz), sequence.num)

\* the effect once the docNumber is split
RegenerateFrom(doc, company, tz, parts) ==
    IF Len(parts) < 2 THEN doc
    ELSE RegenerateWith(doc, company, tz, parseInt(parts[2]))

\* one run of the editor's effect that regenerates the folio
RegenerateFolio(doc, company, tz) ==
    RegenerateFrom(doc, company, tz, split(doc.docNumber, "-"))

\* one run of the editor's effect that enforces VAT for 'Factura'
EnforceVat(doc) ==
    IF doc.docType = "Factura" /\ ~doc.showVat THEN [doc EXCEPT !.showVat = TRUE] ELSE doc

RECURSIVE EditorEffects(_, _, _)
\* run the effects again when the last run changed the document
Settle(doc, next, company, tz) ==
    IF next = doc THEN doc ELSE EditorEffects(next, company, tz)

\* the effects of the mounted editor, re-run until they change nothing more
\* (they list the fields they write among their dependencies)
EditorEffects(doc, company, tz) == Settle(doc, EnforceVat(RegenerateFolio(doc, company, tz)), company, tz)

\* the dependencies of the two effects: an effect runs when the editor mounts
\* and after a render in which one of its dependencies changed
FolioDeps(doc, company) == <<doc.date, doc.docType, company.folioPrefixes, doc.docNumber>>
VatDeps(doc) == <<doc.docType, doc.showVat>>

\* the document after the editor mounts
Mounted(doc, company, view, tz) ==
    IF view = "editor" THEN EditorEffects(doc, company, tz) ELSE doc

\* the document after a render that replaces prev (of prevCompany) by doc (of company)
Rendered(prev, prevCompany, doc, company, view, tz) ==
    IF view = "editor"
       /\ (FolioDeps(doc, company) # FolioDeps(prev, prevCompany) \/ VatDeps(doc) # VatDeps(prev))
    THEN EditorEffects(doc, company, tz)
    ELSE doc

\* useState(documentState.categories[0]?.id) of the editor, as an index; 0 is null
FirstCategoryId(doc) == IF Len(doc.categories) > 0 THEN 1 ELSE 0

-----------------------------------------------------------------------------
(* The application: initial state and the handlers of the pricing editor *)

ActiveCompany == companies[activeCompanyId]
activeCategory == documentState.categories[activeCategoryId]

\* the number of subcategories and of items of the whole document
RECURSIVE SubcategoryCountFrom(_, _)
SubcategoryCountFrom(categories, i) ==
    IF i > Len(categories) THEN 0
    ELSE Len(categories[i].subcategories) + SubcategoryCountFrom(categories, i + 1)

RECURSIVE ItemCountFrom(_, _)
ItemCountFrom(categories, i) ==
    IF i > Len(categories) THEN 0
    ELSE Len(CategoryItems(categories[i])) + ItemCountFrom(categories, i + 1)

SubcategoryCount(doc) == SubcategoryCountFrom(doc.categories, 1)
ItemCount(doc) == ItemCountFrom(doc.categories, 1)

\* array.filter((_, i) => i !== index)
RemoveAt(array, index) ==
    [i \in 1..(Len(array) - 1) |-> IF i < index THEN array[i] ELSE array[i + 1]]

\* App mounts with the editor open on a fresh document of the first company
\* no export has run yet
NoExport ==
    [pc |-> "idle", ret |-> "idle", page |-> 0, y |-> 0, row |-> 0, ticket |-> 0, laidOut |-> <<>>,
     input |-> [logo |-> "none", coupon |-> "none", signature |-> "none", tickets |-> <<>>,
                rows |-> <<>>, bodyY |-> 0]]

InitApp(now, tz) ==
    /\ requests = <<>>
    /\ pdf = NoExport
    /\ timeZone = tz
    /\ companies = <<INITIAL_COMPANY_STATE>>
    /\ activeCompanyId = 1
    /\ currentView = "editor"
    /\ documentState = EditorEffects(createInitialDocumentState(INITIAL_COMPANY_STATE, now, tz),
                                     INITIAL_COMPANY_STATE, tz)
    /\ activeCategoryId = 1
    /\ columnDefinitions = INITIAL_COLUMN_DEFINITIONS
    /\ columnOrder = INITIAL_COLUMN_ORDER
    /\ folioCall = <<>>
    /\ saveCall = <<>>
    /\ lastRequest = <<>>

\* the pricing editor is explored from one start: 5 March 2024, 00:00, in UTC
Init == InitApp([year |-> 2024, month |-> 3, day |-> 5, hour |-> 0], 0)

\* the requests once the editor that started them is unmounted: the flags
\* isGeneratingDescription, isGeneratingItems and isBulkGenerating are state
\* of that editor and start as false in the next one
Unmounted(reqs) == [i \in 1..Len(reqs) |-> [reqs[i] EXCEPT !.busy = FALSE]]

\* Header / SettingsPage: setCurrentView(view). The editor is unmounted in the
\* other views; when it mounts again its active category is the first one
\* and its effects run.
setCurrentView(view) ==
    /\ view # currentView
    /\ currentView' = view
    /\ documentState' = Mounted(documentState, ActiveCompany, view, timeZone)
    /\ activeCategoryId' = IF view = "editor" THEN FirstCategoryId(documentState) ELSE 0
    /\ requests' = IF currentView = "editor" THEN Unmounted(requests) ELSE requests
    /\ UNCHANGED pdf
    /\ saveCall' = <<>>
    /\ lastRequest' = <<>>
    /\ UNCHANGED <<companies, activeCompanyId, columnDefinitions, columnOrder, timeZone, folioCall>>

\* DocumentEditor: a click on a category tab
setActiveCategoryId(id) ==
    /\ currentView = "editor"
    /\ id \in 1..Len(documentState.categories)
    /\ id # activeCategoryId
    /\ activeCategoryId' = id
    /\ saveCall' = <<>>
    /\ lastRequest' = <<>>
    /\ UNCHANGED <<requests, pdf>>
    /\ UNCHANGED <<documentState, companies, activeCompanyId, currentView,
                   columnDefinitions, columnOrder, timeZone, folioCall>>

\* what every handler of the editor ends with: the new document, rendered
SetDocument(doc) ==
    /\ documentState' = Rendered(documentState, ActiveCompany, doc, ActiveCompany, currentView, timeZone)
    /\ saveCall' = <<>>
    /\ lastRequest' = <<>>
    /\ UNCHANGED <<requests, pdf>>
    /\ UNCHANGED <<activeCategoryId, companies, activeCompanyId, currentView,
                   columnDefinitions, columnOrder, timeZone, folioCall>>

\* setDocumentState(doc) by a handler whose request is recorded
Answer(request, doc) ==
    /\ documentState' = Rendered(documentState, ActiveCompany, doc, ActiveCompany, currentView, timeZone)
    /\ saveCall' = <<>>
    /\ lastRequest' = <<request>>
    /\ UNCHANGED <<activeCategoryId, companies, activeCompanyId, currentView,
                   columnDefinitions, columnOrder, timeZone, folioCall, requests, pdf>>

\* DocumentEditor: handleStateChange(field, value), on the fields the model
\* changes: showVat, date and docType (the VAT rate keeps its initial 16).
handleStateChange(field, value) ==
    /\ currentView = "editor"
    /\ documentState[field] # value
    /\ SetDocument([documentState EXCEPT ![field] = value])

\* DocumentEditor: handleCategoryChange(field, value) on the active category.
\* The markup value input is disabled for markupType 'none'; the distribution
\* select is rendered only for markupType 'percentage'.
handleCategoryChange(field, value) ==
    /\ currentView = "editor"
    /\ activeCategoryId # 0
    /\ field = "markupValue" => activeCategory.markupType # "none"
    /\ field = "markupDistribution" => activeCategory.markupType = "percentage"
    /\ activeCategory[field] # value
    /\ LET categoryToUpdate == [activeCategory EXCEPT ![field] = value]
           vatHidden == [key \in DOMAIN categoryToUpdate.visibleColumns \cup {K_vat} |->
                            IF key = K_vat THEN FALSE ELSE categoryToUpdate.visibleColumns[key]]
       IN  IF field = "applyVat" /\ value = FALSE
           THEN SetDocument([documentState EXCEPT !.categories[activeCategoryId] =
                                [categoryToUpdate EXCEPT !.visibleColumns = vatHidden]])
           ELSE SetDocument([documentState EXCEPT !.categories[activeCategoryId] = categoryToUpdate])

\* DocumentEditor: handleToggleColumn(key); the checkbox of the vat column is
\* disabled while the category does not apply VAT
handleToggleColumn(key) ==
    /\ activeCategoryId # 0
    /\ key \in DOMAIN columnDefinitions
    /\ ~(key = K_vat /\ ~activeCategory.applyVat)
    /\ LET visible == activeCategory.visibleColumns
           newVisibleColumns == [k \in DOMAIN visible \cup {key} |->
                                    IF k = key THEN ~(key \in DOMAIN visible /\ visible[key])
                                    ELSE visible[k]]
       IN  handleCategoryChange("visibleColumns", newVisibleColumns)

\* DocumentEditor: handleAddItems(subIndex, count)
handleAddItems(subIndex, count) ==
    /\ currentView = "editor"
    /\ activeCategoryId # 0
    /\ count > 0
    /\ ItemCount(documentState) + count <= MaxItems
    /\ subIndex \in 1..Len(activeCategory.subcategories)
    /\ LET itemsToAdd == [k \in 1..count |-> NewItem(columnDefinitions)]
       IN  SetDocument([documentState EXCEPT
                !.categories[activeCategoryId].subcategories[subIndex].items = @ \o itemsToAdd])

\* DocumentEditor: handleItemChange(subIndex, itemIndex, field, value)
handleItemChange(subIndex, itemIndex, field, value) ==
    /\ currentView = "editor"
    /\ activeCategoryId # 0
    /\ subIndex \in 1..Len(activeCategory.subcategories)
    /\ itemIndex \in 1..Len(activeCategory.subcategories[subIndex].items)
    /\ activeCategory.subcategories[subIndex].items[itemIndex][field] # value
    /\ SetDocument([documentState EXCEPT
            !.categories[activeCategoryId].subcategories[subIndex].items[itemIndex][field] = value])

\* DocumentEditor: handleDeleteItem(subIndex, itemIndex)
handleDeleteItem(subIndex, itemIndex) ==
    /\ currentView = "editor"
    /\ activeCategoryId # 0
    /\ subIndex \in 1..Len(activeCategory.subcategories)
    /\ itemIndex \in 1..Len(activeCategory.subcategories[subIndex].items)
    /\ SetDocument([documentState EXCEPT
            !.categories[activeCategoryId].subcategories[subIndex].items = RemoveAt(@, itemIndex)])

\* DocumentEditor: handleAddSubcategory
handleAddSubcategory ==
    /\ currentView = "editor"
    /\ activeCategoryId # 0
    /\ SubcategoryCount(documentState) < MaxSubcategories
    /\ SetDocument([documentState EXCEPT
            !.categories[activeCategoryId].subcategories =
                Append(@, [items |-> <<>>])])

\* handleDeleteSubcategory without the check for the only subcategory
handleDeleteSubcategory_NoCheck(subIndex) ==
    /\ currentView = "editor"
    /\ activeCategoryId # 0
    /\ subIndex \in 1..Len(activeCategory.subcategories)
    /\ SetDocument([documentState EXCEPT
            !.categories[activeCategoryId].subcategories = RemoveAt(@, subIndex)])

\* DocumentEditor: handleDeleteSubcategory(subIndex). The request to delete
\* the only subcategory is answered with an alert.
handleDeleteSubcategory(subIndex) ==
    /\ currentView = "editor"
    /\ activeCategoryId # 0
    /\ subIndex \in 1..Len(activeCategory.subcategories)
    /\ IF Len(activeCategory.subcategories) <= 1
       THEN /\ lastRequest' = <<[op |-> "handleDeleteSubcategory", category |-> activeCategoryId,
                                 before |-> documentState, alert |-> TRUE]>>
            /\ saveCall' = <<>>
            /\ UNCHANGED <<documentState, activeCategoryId, companies, activeCompanyId, currentView,
                           columnDefinitions, columnOrder, timeZone, folioCall, requests, pdf>>
       ELSE SetDocument([documentState EXCEPT
                !.categories[activeCategoryId].subcategories = RemoveAt(@, subIndex)])

\* SettingsPage: handleAddCategory
handleAddCategory ==
    /\ currentView = "settings"
    /\ Len(documentState.categories) < MaxCategories
    /\ SubcategoryCount(documentState) < MaxSubcategories
    /\ SetDocument([documentState EXCEPT !.categories =
            Append(@, [name |-> "Nueva Categoría 2",
                       subcategories |-> <<[items |-> <<>>]>>,
                       visibleColumns |-> defaultVisibleColumns(columnDefinitions),
                       applyVat |-> FALSE,
                       markupApplications |-> 0,
                       markupType |-> "none",
                       markupValue |-> 0,
                       markupDistribution |-> "proportional"])])

Next ==
    \/ \E view \in {"editor", "settings"} : setCurrentView(view)
    \/ \E id \in 1..MaxCategories : setActiveCategoryId(id)
    \/ \E value \in BOOLEAN : handleStateChange("showVat", value)
    \/ \E value \in BOOLEAN : handleCategoryChange("applyVat", value)
    \/ \E value \in MarkupTypes : handleCategoryChange("markupType", value)
    \/ \E value \in MarkupValues : handleCategoryChange("markupValue", value)
    \/ \E value \in MarkupDistributions : handleCategoryChange("markupDistribution", value)
    \/ \E subIndex \in 1..MaxSubcategories, count \in 1..MaxItems : handleAddItems(subIndex, count)
    \/ \E subIndex \in 1..MaxSubcategories, itemIndex \in 1..MaxItems :
          \/ \E value \in Quantities : handleItemChange(subIndex, itemIndex, "quantity", value)
          \/ \E value \in UnitPrices : handleItemChange(subIndex, itemIndex, "unitPrice", value)
          \/ handleDeleteItem(subIndex, itemIndex)
    \/ handleAddSubcategory
    \/ \E subIndex \in 1..MaxSubcategories :
          /\ activeCategoryId # 0
          /\ Len(activeCategory.subcategories) > 1
          /\ handleDeleteSubcategory(subIndex)
    \/ handleAddCategory

\* The pricing editor leaves out the rejected deletions of a subcategory:
\* they change nothing that it computes.
Spec == Init /\ [][Next]_vars

\* the structure of the document alone: categories, subcategories and items
NextStructure ==
    \/ \E view \in {"editor", "settings"} : setCurrentView(view)
    \/ \E id \in 1..MaxCategories : setActiveCategoryId(id)
    \/ \E subIndex \in 1..MaxSubcategories, count \in 1..MaxItems : handleAddItems(subIndex, count)
    \/ \E subIndex \in 1..MaxSubcategories, itemIndex \in 1..MaxItems :
          \/ \E value \in Quantities : handleItemChange(subIndex, itemIndex, "quantity", value)
          \/ handleDeleteItem(subIndex, itemIndex)
    \/ handleAddSubcategory
    \/ \E subIndex \in 1..MaxSubcategories : handleDeleteSubcategory(subIndex)
    \/ handleAddCategory

SpecStructure == Init /\ [][NextStructure]_vars

-----------------------------------------------------------------------------
(* The markup added as a line item *)

MaxApplications == 2      \* the largest markupApplications a category reaches

\* the item of applyMarkup (its id and its texts are left out)
MarkupItem(newBase) ==
    [quantity |-> JsNumber(1),
     unitPrice |-> [t |-> "number", n |-> newBase, s |-> ""],
     keys |-> {K_description, K_quantity, K_unitPrice, K_unit, K_concept}]

\* applyMarkup's newCategories: the item goes to the first subcategory of
\* category i, whose counter grows by one
WithMarkupItem(doc, i, newBase) ==
    [doc EXCEPT !.categories[i].subcategories[1].items = Append(@, MarkupItem(newBase)),
                !.categories[i].markupApplications = @ + 1]

\* DocumentEditor: applyMarkup. totals is calculateTotals of the document;
\* categorySubtotal multiplies Number(quantity) by Number(unitPrice) with no
\* "|| 0".
applyMarkup ==
    /\ currentView = "editor"
    /\ activeCategoryId # 0
    /\ LET totals == calculateTotals(documentState)
           categorySubtotal ==
               Sum([j \in 1..Len(activeCategory.subcategories) |->
                       Sum([k \in 1..Len(activeCategory.subcategories[j].items) |->
                               Times(Number(activeCategory.subcategories[j].items[k].quantity),
                                     Number(activeCategory.subcategories[j].items[k].unitPrice))])])
           otherCategoriesSubtotal == Plus(totals.subtotal, Times(Int2Num(-1), categorySubtotal))
           newBase == IF Gt(otherCategoriesSubtotal, Zero) THEN otherCategoriesSubtotal ELSE totals.subtotal
           request == [op |-> "applyMarkup", category |-> activeCategoryId, before |-> documentState]
       IN  IF Len(activeCategory.subcategories) = 0 \/ newBase = Zero
           THEN Answer(request, documentState)
           ELSE /\ ItemCount(documentState) < MaxItems
                /\ activeCategory.markupApplications < MaxApplications
                /\ Answer(request, WithMarkupItem(documentState, activeCategoryId, newBase))

\* the quantity column can be given a select input, whose options are texts
NextMarkup ==
    \/ \E view \in {"editor", "settings"} : setCurrentView(view)
    \/ \E id \in 1..MaxCategories : setActiveCategoryId(id)
    \/ handleCategoryChange("markupType", "fixed")
    \/ handleCategoryChange("markupValue", 10)
    \/ handleAddItems(1, 1)
    \/ \E itemIndex \in 1..MaxItems :
          \/ \E value \in {JsNumber(0 - 1), JsString("x")} :
                handleItemChange(1, itemIndex, "quantity", value)
          \/ handleItemChange(1, itemIndex, "unitPrice", JsNumber(50))
          \/ handleDeleteItem(1, itemIndex)
    \/ handleAddCategory
    \/ applyMarkup

SpecMarkup == Init /\ [][NextMarkup]_vars

-----------------------------------------------------------------------------
(* The handlers of folio numbering *)

P_AB == <<"A", "-", "B", "-">>

\* the prefix typed into the settings form
FolioPrefixes == {P_AB}

\* Header / SettingsPage: setActiveCompanyId(id)
setActiveCompanyId(id) ==
    /\ id \in 1..Len(companies)
    /\ id # activeCompanyId
    /\ activeCompanyId' = id
    /\ documentState' = Rendered(documentState, ActiveCompany, documentState, companies[id],
                                 currentView, timeZone)
    /\ saveCall' = <<>>
    /\ lastRequest' = <<>>
    /\ UNCHANGED <<requests, pdf>>
    /\ UNCHANGED <<activeCategoryId, companies, currentView, columnDefinitions, columnOrder,
                   timeZone, folioCall>>

\* SettingsPage: handleAddNewCompany
handleAddNewCompany ==
    /\ currentView = "settings"
    /\ Len(companies) < MaxCompanies
    /\ companies' = Append(companies, INITIAL_COMPANY_STATE)
    /\ saveCall' = <<>>
    /\ lastRequest' = <<>>
    /\ UNCHANGED <<requests, pdf>>
    /\ UNCHANGED <<documentState, activeCategoryId, activeCompanyId, currentView,
                   columnDefinitions, columnOrder, timeZone, folioCall>>

\* SettingsPage: handleFolioChange(docType, field, value) on the company being edited
handleFolioChange(editingCompanyId, docType, field, value) ==
    /\ currentView = "settings"
    /\ editingCompanyId \in 1..Len(companies)
    /\ companies[editingCompanyId][field][docType] # value
    /\ companies' = [companies EXCEPT ![editingCompanyId][field][docType] = value]
    /\ saveCall' = <<>>
    /\ lastRequest' = <<>>
    /\ UNCHANGED <<requests, pdf>>
    /\ UNCHANGED <<documentState, activeCategoryId, activeCompanyId, currentView,
                   columnDefinitions, columnOrder, timeZone, folioCall>>

\* App: handleNewDocument, offered by the profile page
handleNewDocument(now) ==
    /\ currentView = "profile"
    /\ LET docType == "Cotización Formal"
           currentCounter == ActiveCompany.folioCounters[docType]
           newDoc == createInitialDocumentState(ActiveCompany, now, timeZone)
           sequence == currentCounter + 1
           creationDate == now
           prefix == IF ActiveCompany.folioPrefixes[docType] = <<>> THEN P_COT
                     ELSE ActiveCompany.folioPrefixes[docType]
       IN  /\ sequence <= MaxSequence
           /\ companies' = [companies EXCEPT ![activeCompanyId].folioCounters[docType] = sequence]
           /\ documentState' =
                Mounted([newDoc EXCEPT !.date = IsoDate(creationDate),
                                       !.docNumber = generateFolio(prefix, sequence, creationDate, timeZone),
                                       !.sequence = sequence],
                        ActiveCompany, "editor", timeZone)
    /\ currentView' = "editor"
    /\ activeCategoryId' = 1
    /\ saveCall' = <<>>
    /\ lastRequest' = <<>>
    /\ UNCHANGED <<requests, pdf>>
    /\ UNCHANGED <<activeCompanyId, columnDefinitions, columnOrder, timeZone, folioCall>>

\* App: handleSaveDocument, the 'Guardar' button of the editor view. The lists
\* of saved documents and saved clients it appends to are not modelled;
\* saveCall records the counters it found and the document it saved.
handleSaveDocument ==
    /\ currentView = "editor"
    /\ LET docType == documentState.docType
           docNumber == documentState.docNumber
           parts == split(docNumber, "-")
           sequenceStr == IF Len(parts) >= 2 THEN parts[2] ELSE <<>>
           sequence == parseInt(sequenceStr)
           currentCounter == ActiveCompany.folioCounters[docType]
       IN  IF sequenceStr # <<>> /\ ~IsNaN(sequence) /\ sequence.num > currentCounter
           THEN companies' = [companies EXCEPT ![activeCompanyId].folioCounters[docType] = sequence.num]
           ELSE companies' = companies
    /\ saveCall' = <<[company |-> activeCompanyId,
                      docType |-> documentState.docType,
                      sequence |-> documentState.sequence,
                      before |-> companies]>>
    /\ lastRequest' = <<>>
    /\ UNCHANGED <<requests, pdf>>
    /\ UNCHANGED <<documentState, activeCategoryId, activeCompanyId, currentView,
                   columnDefinitions, columnOrder, timeZone, folioCall>>

InitFolio == \E now \in Nows, tz \in TimeZones : InitApp(now, tz)

NextFolio ==
    \/ \E view \in {"editor", "profile", "settings"} : setCurrentView(view)
    \/ \E id \in 1..MaxCompanies : setActiveCompanyId(id)
    \/ handleAddNewCompany
    \/ \E id \in 1..MaxCompanies, docType \in DOCUMENT_TYPES :
          \/ \E value \in FolioPrefixes : handleFolioChange(id, docType, "folioPrefixes", value)
          \/ \E value \in 1..MaxSequence : handleFolioChange(id, docType, "folioCounters", value)
    \/ \E value \in Dates : handleStateChange("date", value)
    \/ \E value \in DOCUMENT_TYPES : handleStateChange("docType", value)
    \/ \E now \in Nows : handleNewDocument(now)
    \/ handleSaveDocument

SpecFolio == InitFolio /\ [][NextFolio]_vars

-----------------------------------------------------------------------------
(* generateFolio on its own *)

FormatPrefixes == {P_COT, <<"X", "-">>}
FormatSequences == {1, 7, 42, 123456}
FormatDates ==
    {[year |-> 2024, month |-> 3, day |-> 5], [year |-> 2024, month |-> 1, day |-> 1],
     [year |-> 2024, month |-> 12, day |-> 31], [year |-> 2023, month |-> 12, day |-> 31]}

\* a call generateFolio(prefix, sequence, date) in the runtime's time zone
CallGenerateFolio(prefix, sequence, date) ==
    /\ folioCall' = <<[prefix |-> prefix, sequence |-> sequence, date |-> date,
                       result |-> generateFolio(prefix, sequence, date, timeZone)]>>
    /\ UNCHANGED <<documentState, activeCategoryId, companies, activeCompanyId, currentView,
                   columnDefinitions, columnOrder, timeZone, saveCall, lastRequest, requests, pdf>>

InitFormat == \E tz \in TimeZones : InitApp([year |-> 2024, month |-> 3, day |-> 5, hour |-> 0], tz)

NextFormat ==
    \E prefix \in FormatPrefixes, sequence \in FormatSequences, d \in FormatDates, h \in Hours :
        CallGenerateFolio(prefix, sequence, [year |-> d.year, month |-> d.month, day |-> d.day, hour |-> h])

SpecFormat == InitFormat /\ [][NextFormat]_vars

-----------------------------------------------------------------------------
(* The handlers of the column registry *)

UpperCase == <<"A","B","C","D","E","F","G","H","I","J","K","L","M",
               "N","O","P","Q","R","S","T","U","V","W","X","Y","Z">>
LowerCase == <<"a","b","c","d","e","f","g","h","i","j","k","l","m",
               "n","o","p","q","r","s","t","u","v","w","x","y","z">>

\* c.toLowerCase() and c.toUpperCase() of one character
toLowerCase(c) ==
    IF Includes(UpperCase, c) THEN LowerCase[indexOf(UpperCase, c, 1)] ELSE c
toUpperCase(c) ==
    IF Includes(LowerCase, c) THEN UpperCase[indexOf(LowerCase, c, 1)] ELSE c

\* a character the class [a-z0-9] matches under the flag i
IsAlphaNumeric(c) == Includes(LowerCase, c) \/ Includes(UpperCase, c) \/ IsDigit(c)

RECURSIVE trim(_)
\* str.trim() of a text whose only white space is the blank
trim(str) ==
    IF Len(str) = 0 THEN str
    ELSE IF Head(str) = " " THEN trim(Tail(str))
    ELSE IF str[Len(str)] = " " THEN trim(SubSeq(str, 1, Len(str) - 1))
    ELSE str

\* label.trim().toLowerCase().replace(/[^a-z0-9]/gi, '_')
NewKey(label) ==
    LET trimmed == trim(label)
    IN  [i \in 1..Len(trimmed) |->
            IF IsAlphaNumeric(toLowerCase(trimmed[i])) THEN toLowerCase(trimmed[i]) ELSE "_"]

\* key.replace(/_/g, ' ').replace(/\b\w/g, l => l.toUpperCase())
TitleCaseLabel(key) ==
    LET spaced == [i \in 1..Len(key) |-> IF key[i] = "_" THEN " " ELSE key[i]]
    IN  [i \in 1..Len(spaced) |->
            IF IsAlphaNumeric(spaced[i]) /\ (i = 1 \/ ~IsAlphaNumeric(spaced[i - 1]))
            THEN toUpperCase(spaced[i]) ELSE spaced[i]]

InitialKeys == {INITIAL_COLUMN_ORDER[i] : i \in 1..Len(INITIAL_COLUMN_ORDER)}

\* the labels typed into the 'add column' form, the types chosen there, and
\* the unknown keys an import comes back with
ColumnLabels ==
    {<<" ","S","k","u"," ","1">>, <<"V","a","t">>, <<" ">>,
     <<"C","o","n","s","t","r","u","c","t","o","r">>}
ImportKeys == {<<"l","o","t","e","_","n","o">>}

\* the columns whose definition the model edits in the settings form: one
\* initial column and every column added later
EditedKeys == {K_quantity} \cup (DOMAIN columnDefinitions \ InitialKeys)

\* the registry with the definition def under key
WithColumn(defs, key, def) ==
    [k \in DOMAIN defs \cup {key} |-> IF k = key THEN def ELSE defs[k]]

\* handleColumnDefinitionChange without the repair of the input type
ChangedDefinition_NoRepair(oldDef, field, value) == [oldDef EXCEPT ![field] = value]

\* the definition handleColumnDefinitionChange stores for a column
ChangedDefinition(oldDef, field, value) ==
    LET newDef == [oldDef EXCEPT ![field] = value]
    IN  IF field = "dataType"
        THEN LET compatibleInputs == COMPATIBLE_INPUT_TYPES[value]
             IN  IF ~Includes(compatibleInputs, oldDef.inputType)
                 THEN [newDef EXCEPT !.inputType = compatibleInputs[1]]
                 ELSE newDef
        ELSE newDef

\* SettingsPage: handleColumnDefinitionChange(key, field, value). The select
\* of the input type offers COMPATIBLE_INPUT_TYPES[dataType] only.
handleColumnDefinitionChange(key, field, value) ==
    /\ currentView = "settings"
    /\ key \in DOMAIN columnDefinitions
    /\ field = "inputType" => Includes(COMPATIBLE_INPUT_TYPES[columnDefinitions[key].dataType], value)
    /\ columnDefinitions[key][field] # value
    /\ columnDefinitions' = [columnDefinitions EXCEPT ![key] = ChangedDefinition(@, field, value)]
    /\ saveCall' = <<>>
    /\ lastRequest' = <<>>
    /\ UNCHANGED <<requests, pdf>>
    /\ UNCHANGED <<documentState, activeCategoryId, companies, activeCompanyId, currentView,
                   columnOrder, timeZone, folioCall>>

\* the lower-case names every plain object inherits from Object.prototype
InheritedKeys == {<<"c","o","n","s","t","r","u","c","t","o","r">>}

\* columnDefinitions[key] is truthy: an own definition or an inherited property
HasProperty(defs, key) == key \in DOMAIN defs \/ key \in InheritedKeys

\* SettingsPage: handleAddColumn, with the form holding label and dataType.
\* An empty label and a key that is found are answered with an alert.
handleAddColumn(label, dataType) ==
    /\ currentView = "settings"
    /\ LET newKey == NewKey(label)
           compatibleInputs == COMPATIBLE_INPUT_TYPES[dataType]
           rejected == trim(label) = <<>> \/ HasProperty(columnDefinitions, newKey)
       IN  /\ columnDefinitions' =
                IF rejected THEN columnDefinitions
                ELSE WithColumn(columnDefinitions, newKey,
                           ColumnDefinition(trim(label), FALSE, TRUE, dataType, compatibleInputs[1], <<>>))
           /\ columnOrder' = IF rejected THEN columnOrder ELSE Append(columnOrder, newKey)
           /\ lastRequest' = <<[op |-> "handleAddColumn", label |-> label,
                                before |-> columnDefinitions, alert |-> rejected]>>
    /\ saveCall' = <<>>
    /\ UNCHANGED <<requests, pdf>>
    /\ UNCHANGED <<documentState, activeCategoryId, companies, activeCompanyId, currentView,
                   timeZone, folioCall>>

\* SettingsPage: handleDeleteColumn(keyToDelete); the button is disabled for
\* the initial columns
handleDeleteColumn(keyToDelete) ==
    /\ currentView = "settings"
    /\ keyToDelete \in DOMAIN columnDefinitions \ InitialKeys
    /\ Len(columnOrder) > 1
    /\ columnDefinitions' = [k \in DOMAIN columnDefinitions \ {keyToDelete} |-> columnDefinitions[k]]
    /\ columnOrder' = SelectSeq(columnOrder, LAMBDA k : k # keyToDelete)
    /\ saveCall' = <<>>
    /\ lastRequest' = <<>>
    /\ UNCHANGED <<requests, pdf>>
    /\ UNCHANGED <<documentState, activeCategoryId, companies, activeCompanyId, currentView,
                   timeZone, folioCall>>

\* ImageImportModal: handleAcceptNewColumns, for the keys an import found
\* that the registry does not hold
handleAcceptNewColumns(newKeys) ==
    /\ currentView = "editor"
    /\ newKeys # {}
    /\ newKeys \cap DOMAIN columnDefinitions = {}
    /\ columnDefinitions' =
            [k \in DOMAIN columnDefinitions \cup newKeys |->
                IF k \in newKeys
                THEN ColumnDefinition(TitleCaseLabel(k), TRUE, TRUE, "string", "text", <<>>)
                ELSE columnDefinitions[k]]
    /\ columnOrder' = columnOrder \o
            (CHOOSE order \in [1..Cardinality(newKeys) -> newKeys] :
                {order[i] : i \in 1..Cardinality(newKeys)} = newKeys)
    /\ saveCall' = <<>>
    /\ lastRequest' = <<>>
    /\ UNCHANGED <<requests, pdf>>
    /\ UNCHANGED <<documentState, activeCategoryId, companies, activeCompanyId, currentView,
                   timeZone, folioCall>>

NextColumns ==
    \/ \E view \in {"editor", "settings"} : setCurrentView(view)
    \/ \E key \in EditedKeys :
          \/ \E value \in DataTypes : handleColumnDefinitionChange(key, "dataType", value)
          \/ \E value \in InputTypes : handleColumnDefinitionChange(key, "inputType", value)
    \/ \E key \in {K_quantity, K_total}, value \in BOOLEAN :
          handleColumnDefinitionChange(key, "isEditable", value)
    \/ \E label \in ColumnLabels, dataType \in DataTypes : handleAddColumn(label, dataType)
    \/ \E key \in EditedKeys : handleDeleteColumn(key)
    \/ \E newKeys \in SUBSET ImportKeys : handleAcceptNewColumns(newKeys)

SpecColumns == Init /\ [][NextColumns]_vars

\* blank items under a registry whose unit and quantity columns are edited
NextItems ==
    \/ \E view \in {"editor", "settings"} : setCurrentView(view)
    \/ \E key \in {K_unit, K_quantity}, value \in {"string", "number", "boolean"} :
          handleColumnDefinitionChange(key, "dataType", value)
    \/ \E value \in {"text", "select"} : handleColumnDefinitionChange(K_unit, "inputType", value)
    \/ \E count \in 1..MaxItems : handleAddItems(1, count)
    \/ \E itemIndex \in 1..MaxItems : handleDeleteItem(1, itemIndex)

SpecItems == Init /\ [][NextItems]_vars

\* the visible columns of the categories and the 'default' flags behind them
NextVisible ==
    \/ \E view \in {"editor", "settings"} : setCurrentView(view)
    \/ \E id \in 1..MaxCategories : setActiveCategoryId(id)
    \/ \E key \in {K_vat, K_concept}, value \in BOOLEAN :
          handleColumnDefinitionChange(key, "default", value)
    \/ handleAddCategory
    \/ \E value \in BOOLEAN : handleCategoryChange("applyVat", value)
    \/ \E key \in {K_vat, K_concept} : handleToggleColumn(key)

SpecVisible == Init /\ [][NextVisible]_vars

-----------------------------------------------------------------------------
(* The suggestion service: requests in flight and their continuations *)

MaxRequests == 1
MaxTickets == 1

K_category == <<"c","a","t","e","g","o","r","y">>

\* the properties of the item schema a request carries: processCategoryWithGemini
\* ("items") and processMultipleCategoriesWithGemini ("bulk") skip the derived
\* keys, processImageWithGemini ("image") takes every key of the registry
ItemSchema(kind, defs) ==
    CASE kind \in {"items", "bulk"} ->
            (DOMAIN defs \ {K_total, K_markup, K_vat})
                \cup {K_description, K_quantity, K_unitPrice, K_unit}
      [] kind = "image" -> DOMAIN defs \cup {K_quantity, K_unitPrice, K_category}
      [] OTHER -> {}

\* a call of the service: its kind, its item schema, and what its
\* continuation holds on to (the document and the category or ticket it was
\* started for); busy is the flag that disables the button that started it
Request(kind, category, ticket) ==
    [kind |-> kind, schema |-> ItemSchema(kind, columnDefinitions),
     document |-> documentState.id, category |-> category, ticket |-> ticket, busy |-> TRUE]

\* what the service answers: a rejection (or a text that does not parse), or
\* JSON whose root is an array or an object and which holds these items
ServiceResponses ==
    [ok : {FALSE}, root : {"array"}, items : {<<>>}]
    \cup [ok : {TRUE}, root : {"array", "object"},
          items : {<<>>,
                   <<[quantity |-> JsNumber(1), unitPrice |-> JsNumber(50),
                      keys |-> {K_description, K_quantity, K_unitPrice, K_unit}]>>,
                   <<[quantity |-> Undefined, unitPrice |-> Undefined, keys |-> {K_concept}]>>}]

\* the start of an async handler of the editor: the call goes out
Send(request) ==
    /\ currentView = "editor"
    /\ Len(requests) < MaxRequests
    /\ \A i \in 1..Len(requests) : requests[i].kind = request.kind => ~requests[i].busy
    /\ requests' = Append(requests, request)
    /\ saveCall' = <<>>
    /\ lastRequest' = <<>>
    /\ UNCHANGED <<activeCategoryId, companies, activeCompanyId, currentView,
                   columnDefinitions, columnOrder, timeZone, folioCall, pdf>>

\* the continuation of the handler of request i: the document it leaves, and
\* whether it raised an alert
Settled(i, response, doc, alert) ==
    /\ requests' = RemoveAt(requests, i)
    /\ documentState' = Rendered(documentState, ActiveCompany, doc, ActiveCompany, currentView, timeZone)
    /\ lastRequest' = <<[op |-> "settled", request |-> requests[i], response |-> response,
                         before |-> documentState, alert |-> alert]>>
    /\ saveCall' = <<>>
    /\ UNCHANGED <<activeCategoryId, companies, activeCompanyId, currentView,
                   columnDefinitions, columnOrder, timeZone, folioCall, pdf>>

\* category.subcategories[0].items.push(...items) on category i
WithGeneratedItems(doc, i, items) ==
    [doc EXCEPT !.categories[i].subcategories[1].items = @ \o items]

\* DocumentEditor: handleGenerateDescription, up to its await
handleGenerateDescription == Send(Request("description", 0, 0)) /\ UNCHANGED documentState

\* DocumentEditor: handleGenerateDescription, from its await on
handleGenerateDescriptionSettled(i, response) ==
    /\ i \in 1..Len(requests) /\ requests[i].kind = "description"
    /\ IF response.ok
       THEN Settled(i, response, [documentState EXCEPT !.description = "generated"], FALSE)
       ELSE Settled(i, response, documentState, TRUE)

\* DocumentEditor: executeAiAnalysis, up to its await
executeAiAnalysis ==
    /\ activeCategoryId # 0
    /\ Send(Request("items", activeCategoryId, 0))
    /\ UNCHANGED documentState

\* DocumentEditor: executeAiAnalysis, from its await on. processCategoryWithGemini
\* returns [] for JSON that is not an array; the category is found by its id,
\* which no other document holds.
executeAiAnalysisSettled(i, response) ==
    /\ i \in 1..Len(requests) /\ requests[i].kind = "items"
    /\ LET generatedItems == IF response.root = "array" THEN response.items ELSE <<>>
       IN  /\ ItemCount(documentState) + Len(generatedItems) <= MaxItems
           /\ IF ~response.ok THEN Settled(i, response, documentState, TRUE)
              ELSE IF Len(generatedItems) = 0 THEN Settled(i, response, documentState, TRUE)
              ELSE IF requests[i].document # documentState.id
                   THEN Settled(i, response, documentState, FALSE)
              ELSE Settled(i, response,
                           WithGeneratedItems(documentState, requests[i].category, generatedItems), FALSE)

\* DocumentEditor: handleBulkGenerateItems, up to its await
handleBulkGenerateItems == Send(Request("bulk", 0, 0)) /\ UNCHANGED documentState

\* DocumentEditor: handleBulkGenerateItems, from its await on. The answer
\* names the first category; Object.entries of an array finds no category
\* name, and the category is found by its name.
handleBulkGenerateItemsSettled(i, response) ==
    /\ i \in 1..Len(requests) /\ requests[i].kind = "bulk"
    /\ LET items == IF response.root = "object" THEN response.items ELSE <<>>
       IN  /\ ItemCount(documentState) + Len(items) <= MaxItems
           /\ IF ~response.ok THEN Settled(i, response, documentState, TRUE)
              ELSE IF Len(items) = 0 THEN Settled(i, response, documentState, FALSE)
              ELSE Settled(i, response, WithGeneratedItems(documentState, 1, items), FALSE)

\* ImageImportModal: handleProcessImage, up to its await
handleProcessImage == Send(Request("image", 0, 0)) /\ UNCHANGED documentState

\* ImageImportModal: handleProcessImage, from its await on: the items go to
\* the review step of the modal, an error to its error step
handleProcessImageSettled(i, response) ==
    /\ i \in 1..Len(requests) /\ requests[i].kind = "image"
    /\ Settled(i, response, documentState, ~response.ok)

\* DocumentEditor: handleTicketUpload
handleTicketUpload ==
    /\ currentView = "editor"
    /\ Len(documentState.thirdPartyTickets) < MaxTickets
    /\ SetDocument([documentState EXCEPT !.thirdPartyTickets =
            Append(@, [displayMode |-> "image", interpretedData |-> FALSE, isProcessing |-> FALSE])])

\* DocumentEditor: handleThirdPartyTicketChange(id, 'displayMode', value)
handleThirdPartyTicketChange(ticket, value) ==
    /\ currentView = "editor"
    /\ ticket \in 1..Len(documentState.thirdPartyTickets)
    /\ documentState.thirdPartyTickets[ticket].displayMode # value
    /\ SetDocument([documentState EXCEPT !.thirdPartyTickets[ticket].displayMode = value])

\* DocumentEditor: handleInterpretTicket(ticketId), up to its await
handleInterpretTicket(ticket) ==
    /\ ticket \in 1..Len(documentState.thirdPartyTickets)
    /\ documentState.thirdPartyTickets[ticket].displayMode = "interpret"
    /\ ~documentState.thirdPartyTickets[ticket].isProcessing
    /\ Send([Request("ticket", 0, ticket) EXCEPT !.busy = FALSE])
    /\ documentState' = [documentState EXCEPT !.thirdPartyTickets[ticket].isProcessing = TRUE]

\* DocumentEditor: handleInterpretTicket(ticketId), from its await on. The
\* ticket is found by its id, which no other document holds.
handleInterpretTicketSettled(i, response) ==
    /\ i \in 1..Len(requests) /\ requests[i].kind = "ticket"
    /\ LET ticket == requests[i].ticket
       IN  IF requests[i].document # documentState.id
           THEN Settled(i, response, documentState, ~response.ok)
           ELSE IF response.ok
           THEN Settled(i, response,
                        [documentState EXCEPT !.thirdPartyTickets[ticket].interpretedData = TRUE,
                                              !.thirdPartyTickets[ticket].isProcessing = FALSE], FALSE)
           ELSE Settled(i, response,
                        [documentState EXCEPT !.thirdPartyTickets[ticket].displayMode = "image",
                                              !.thirdPartyTickets[ticket].isProcessing = FALSE], TRUE)

NextSuggest ==
    \/ \E view \in {"editor", "profile"} : setCurrentView(view)
    \/ handleNewDocument([year |-> 2024, month |-> 3, day |-> 5, hour |-> 0])
    \/ handleAddItems(1, 1)
    \/ handleGenerateDescription
    \/ executeAiAnalysis
    \/ handleBulkGenerateItems
    \/ handleProcessImage
    \/ handleTicketUpload
    \/ \E value \in {"image", "interpret"} : handleThirdPartyTicketChange(1, value)
    \/ handleInterpretTicket(1)
    \/ \E i \in 1..MaxRequests, response \in ServiceResponses :
          \/ handleGenerateDescriptionSettled(i, response)
          \/ executeAiAnalysisSettled(i, response)
          \/ handleBulkGenerateItemsSettled(i, response)
          \/ handleProcessImageSettled(i, response)
          \/ handleInterpretTicketSettled(i, response)

SpecSuggest == Init /\ [][NextSuggest]_vars

-----------------------------------------------------------------------------
(* The PDF export: handleExportToPdf as a run of steps between its awaits *)

MaxAnnex == 2             \* tickets of the annex
MaxRows == 2              \* item rows of the table

A4_HEIGHT == 297
MARGIN == 5
FOOTER_HEIGHT == 15
HEADER_HEIGHT == 30
DRAW_HEIGHT == A4_HEIGHT - (MARGIN * 2) - FOOTER_HEIGHT

tableHeaderHeight == 7
tableRowVerticalPadding == 4

\* the lengths of a run (y and the heights) are in half millimetres, so that
\* the line height of a cell, 3.5 mm, is a whole number
Mm(x) == x + x
cellLineHeight == 7

\* the height of an annex image that decodes: the images of the model are
\* tall, so that the cap imgHeight = DRAW_HEIGHT / 2 applies
AnnexImageHeight == Mm(DRAW_HEIGHT) \div 2

\* the lines of an interpreted ticket with one item and no tax
TicketLines == 8

\* sequences over S of length at most n
SeqUpTo(S, n) == UNION {[1..k -> S] : k \in 0..n}

\* maxLines of an item row: the most lines one of its cells wraps to
RowLines == {1, 5, 70}

\* what an export reads from the company and the document. "broken" is an
\* image that getImageData rejects (img.onerror), "image" one that it resolves;
\* bodyY is y (in mm) once the client and the description are laid out. The
\* document has no rows, or one category with the subcategory 'General' that
\* holds the rows, priced above 0 and without VAT; it has no terms.
\* ExportInputs varies the images of a document with one row, PageInputs the
\* rows and the tickets of a document whose images decode.
ExportInputs ==
    [logo : {"none", "image", "broken"},
     coupon : {"none", "text", "image", "broken"},
     signature : {"none", "type", "image", "broken"},
     tickets : SeqUpTo({"image", "broken", "interpret"}, MaxAnnex),
     rows : {<<5>>},
     bodyY : {60, 240}]
PageInputs ==
    [logo : {"image"},
     coupon : {"none", "text"},
     signature : {"none"},
     tickets : SeqUpTo({"image", "broken", "interpret"}, MaxAnnex),
     rows : SeqUpTo(RowLines, MaxRows),
     bodyY : {60, 240}]

\* the trace of a run: an entry for a block of height h at the y and on the
\* page of the run
DrawBlock(run, el, h) ==
    [run EXCEPT !.laidOut = Append(@, [el |-> el, ticket |-> run.ticket, page |-> run.page,
                                       y |-> run.y, height |-> h])]

\* a call of pdf.text / pdf.addImage / pdf.rect / pdf.addPage / pdf.save,
\* named by what it draws
Draw(run, el) == DrawBlock(run, el, 0)

\* checkAndAddPage without the footer of the page that is left
checkAndAddPage_NoFooter(run, heightNeeded, next) ==
    LET checked == DrawBlock(run, "check", heightNeeded)
    IN  IF run.y + heightNeeded > Mm(MARGIN + DRAW_HEIGHT)
        THEN [Draw(checked, "addPage") EXCEPT !.page = @ + 1, !.pc = "drawHeader", !.ret = next]
        ELSE [checked EXCEPT !.pc = next]

\* handleExportToPdf: checkAndAddPage(heightNeeded), then on to next; the
\* trace holds the check itself as the entry "check"
checkAndAddPage(run, heightNeeded, next) ==
    LET checked == DrawBlock(run, "check", heightNeeded)
    IN  IF run.y + heightNeeded > Mm(MARGIN + DRAW_HEIGHT)
        THEN [Draw(Draw(checked, "footer"), "addPage")
                EXCEPT !.page = @ + 1, !.pc = "drawHeader", !.ret = next]
        ELSE [checked EXCEPT !.pc = next]

\* const finalElementsHeight (advancePayment is 0 in the exports of the model)
finalElementsHeight(input) == Mm(40 + (IF input.signature # "none" THEN 30 ELSE 0))

\* the top of the loop over doc.thirdPartyTickets without the footer that
\* follows the loop
NextTicket_NoFooter(run) ==
    IF run.ticket > Len(run.input.tickets)
    THEN [run EXCEPT !.ticket = 0, !.pc = "save"]
    ELSE checkAndAddPage(run, Mm(15), "ticketTitle")

\* the top of the loop over doc.thirdPartyTickets, and what follows the loop
NextTicket(run) ==
    IF run.ticket > Len(run.input.tickets)
    THEN [Draw([run EXCEPT !.ticket = 0], "footer") EXCEPT !.pc = "save"]
    ELSE checkAndAddPage(run, Mm(15), "ticketTitle")

\* the catch block of the annex image, up to its await
AnnexImageFailed(run) == checkAndAddPage(run, Mm(10), "ticketError")

\* one step of the run
Export(run) ==
    /\ pdf' = run
    /\ saveCall' = <<>>
    /\ lastRequest' = <<>>
    /\ UNCHANGED <<documentState, activeCategoryId, companies, activeCompanyId, currentView,
                   columnDefinitions, columnOrder, timeZone, folioCall, requests>>

\* App.tsx: handleExportToPdf(filename), up to its first await. What a run
\* holds (pdf, y, page) is local to the call, so that each behaviour follows
\* one run.
handleExportToPdf(input) ==
    /\ pdf.pc = "idle"
    /\ Export([NoExport EXCEPT !.input = input, !.page = 1, !.y = Mm(MARGIN),
                               !.pc = "drawHeader", !.ret = "body"])

\* handleExportToPdf: drawHeader; a logo that fails to load is caught
drawHeader ==
    /\ pdf.pc = "drawHeader"
    /\ LET top == [pdf EXCEPT !.y = Mm(MARGIN)]
           withLogo == IF pdf.input.logo = "image" THEN Draw(top, "logo") ELSE top
       IN  Export([Draw(withLogo, "header") EXCEPT !.y = Mm(MARGIN + HEADER_HEIGHT), !.pc = pdf.ret])

\* handleExportToPdf: after the loop over the categories (the document has no
\* terms): the page check of the coupon or of the final elements
AfterCategories(run) ==
    IF run.input.coupon # "none"
    THEN checkAndAddPage(run, Mm(40 + (IF run.input.coupon = "text" THEN 0 ELSE 30)), "coupon")
    ELSE checkAndAddPage(run, finalElementsHeight(run.input), "totals")

\* handleExportToPdf: the client data, the title and the description, and the
\* page check of the category if there is one
drawBody ==
    /\ pdf.pc = "body"
    /\ LET run == [Draw(pdf, "body") EXCEPT !.y = Mm(pdf.input.bodyY)]
       IN  IF Len(pdf.input.rows) > 0
           THEN Export(checkAndAddPage(run, Mm(12 + tableHeaderHeight + 10), "category"))
           ELSE Export(AfterCategories(run))

\* handleExportToPdf: drawCategoryTitle and drawColumnHeader
drawCategoryTitle(run) == [Draw(run, "categoryTitle") EXCEPT !.y = @ + Mm(10)]
drawColumnHeader(run) == [Draw(run, "columnHeader") EXCEPT !.y = @ + Mm(tableHeaderHeight)]

\* const rowHeight = maxLines * cellLineHeight + tableRowVerticalPadding
rowHeight(maxLines) == maxLines * cellLineHeight + Mm(tableRowVerticalPadding)

\* handleExportToPdf: the cells of the item row at run.row, and on to the
\* next row or, after the last one, to the page check of the category totals
drawRow(run) ==
    LET height == rowHeight(run.input.rows[run.row])
        drawn == [DrawBlock(run, "row", height) EXCEPT !.y = @ + height, !.row = @ + 1]
    IN  IF drawn.row > Len(run.input.rows)
        THEN checkAndAddPage([drawn EXCEPT !.row = 0], Mm(12 + 2), "categoryTotals")
        ELSE [drawn EXCEPT !.pc = "row"]

\* handleExportToPdf: the title of the category, the column header of its
\* subcategory (which has no title of its own), and the totals of the category
drawCategory ==
    \/ /\ pdf.pc = "category"
       /\ Export(checkAndAddPage(drawCategoryTitle(pdf), Mm(tableHeaderHeight), "subcategory"))
    \/ /\ pdf.pc = "subcategory"
       /\ Export([drawColumnHeader(pdf) EXCEPT !.row = 1, !.pc = "row"])
    \/ /\ pdf.pc = "categoryTotals"
       /\ Export(AfterCategories([Draw(pdf, "categoryTotals") EXCEPT !.y = @ + Mm(16) + Mm(8)]))

\* handleExportToPdf: one pass of the loop over sub.items: the page break of
\* the row, which draws the titles again under the new header, and the row
drawItemRow ==
    \/ /\ pdf.pc = "row"
       /\ LET height == rowHeight(pdf.input.rows[pdf.row])
              checked == DrawBlock(pdf, "check", height)
          IN  IF pdf.y + height > Mm(MARGIN + DRAW_HEIGHT)
              THEN Export([Draw(Draw(checked, "footer"), "addPage")
                              EXCEPT !.page = @ + 1, !.pc = "drawHeader", !.ret = "rowBreak"])
              ELSE Export(drawRow(checked))
    \/ /\ pdf.pc = "rowBreak"
       /\ Export(drawRow(drawColumnHeader(drawCategoryTitle(pdf))))

\* handleExportToPdf: the coupon; a coupon image that fails to load is caught
drawCoupon ==
    /\ pdf.pc = "coupon"
    /\ LET box == Draw(pdf, "couponBox")
           withImage == IF pdf.input.coupon = "image" THEN Draw(box, "couponImage") ELSE box
           couponBoxHeight == IF pdf.input.coupon = "text" THEN 35 ELSE 40
           run == [Draw(withImage, "couponText") EXCEPT !.y = @ + Mm(couponBoxHeight + 10)]
       IN  Export(checkAndAddPage(run, finalElementsHeight(pdf.input), "totals"))

\* handleExportToPdf: totals, signature and footer of the last page of the
\* quotation, and the new page of the annex. The signature image, and the line
\* and the names drawn under it, are in one try block: a signature image that
\* fails to load is caught after none of them is drawn.
drawFinalElements ==
    /\ pdf.pc = "totals"
    /\ LET totalsDrawn == [Draw(pdf, "totals") EXCEPT !.y = @ + Mm(18)]
           signed == IF pdf.input.signature \in {"image", "type"}
                     THEN Draw(Draw(totalsDrawn, "signature"), "signatureNames") ELSE totalsDrawn
           run == Draw(signed, "footer")
       IN  IF Len(pdf.input.tickets) > 0
           THEN Export([Draw(run, "addPage") EXCEPT !.page = @ + 1, !.pc = "drawHeader", !.ret = "annex"])
           ELSE Export([run EXCEPT !.pc = "save"])

\* handleExportToPdf: the annex of third-party tickets, one step per await
drawAnnex ==
    \/ /\ pdf.pc = "annex"
       /\ Export(NextTicket([Draw([pdf EXCEPT !.y = Mm(MARGIN + HEADER_HEIGHT + 5)], "annexTitle")
                                EXCEPT !.y = @ + Mm(10), !.ticket = 1]))
    \/ /\ pdf.pc = "ticketTitle"
       /\ LET run == [Draw(pdf, "ticketTitle") EXCEPT !.y = @ + Mm(8)]
              displayed == pdf.input.tickets[pdf.ticket]
          IN  CASE displayed = "image" -> Export(checkAndAddPage(run, AnnexImageHeight + Mm(5), "ticketImage"))
                [] displayed = "broken" -> Export(AnnexImageFailed(run))
                [] displayed = "interpret" -> Export(checkAndAddPage(run, Mm(TicketLines * 4 + 10), "ticketText"))
    \/ /\ pdf.pc = "ticketImage"
       /\ Export(NextTicket([Draw(pdf, "annexImage") EXCEPT !.y = @ + AnnexImageHeight + Mm(10), !.ticket = @ + 1]))
    \/ /\ pdf.pc = "ticketError"
       /\ Export(NextTicket([Draw(pdf, "annexError") EXCEPT !.y = @ + Mm(10), !.ticket = @ + 1]))
    \/ /\ pdf.pc = "ticketText"
       /\ Export(NextTicket([Draw(pdf, "ticketText") EXCEPT !.y = @ + Mm(5 + TicketLines * 4 + 10), !.ticket = @ + 1]))

\* handleExportToPdf: pdf.save
save ==
    /\ pdf.pc = "save"
    /\ Export([Draw(pdf, "save") EXCEPT !.pc = "done"])

\* the continuations of a run
ExportSteps ==
    drawHeader \/ drawBody \/ drawCategory \/ drawItemRow \/ drawCoupon \/ drawFinalElements
        \/ drawAnnex \/ save

NextExport ==
    \/ \E input \in ExportInputs : handleExportToPdf(input)
    \/ drawHeader
    \/ drawBody
    \/ drawCategory
    \/ drawItemRow
    \/ drawCoupon
    \/ drawFinalElements
    \/ drawAnnex
    \/ save

NextPages ==
    \/ \E input \in PageInputs : handleExportToPdf(input)
    \/ drawHeader
    \/ drawBody
    \/ drawCategory
    \/ drawItemRow
    \/ drawCoupon
    \/ drawFinalElements
    \/ drawAnnex
    \/ save

SpecPages == Init /\ [][NextPages]_vars

\* every image load ends in onload or onerror, and the continuation of an
\* await then runs
SpecExport == Init /\ [][NextExport]_vars /\ WF_vars(ExportSteps)

-----------------------------------------------------------------------------
(* The payment plan of the preview: calculatePaymentOptions *)

MaxTerms == 2             \* terms of a payment plan

\* Math.pow(a, n) for an integer n
RECURSIVE Pow(_, _)
Pow(a, n) ==
    IF n = 0 THEN Int2Num(1)
    ELSE IF n < 0 THEN Over(Int2Num(1), Pow(a, -n))
    ELSE Times(a, Pow(a, n - 1))

\* a - b
Minus(a, b) == Plus(a, Times(Int2Num(-1), b))

\* the entry of one term where the term 0 is not left out
PaymentOption_KeepsZero(balance, term, config) ==
    LET annualInterestRate ==
            Plus(Plus(config.baseInterestRate, config.riskFactor),
                 Over(Times(Int2Num(term), config.termIncrementRate), Int2Num(12)))
        monthlyRate == Over(Over(annualInterestRate, Hundred), Int2Num(12))
        growth == Pow(Plus(Int2Num(1), monthlyRate), term)
        monthlyPayment == Over(Times(balance, Times(monthlyRate, growth)), Minus(growth, Int2Num(1)))
    IN  IF monthlyRate = Zero
        THEN <<[term |-> term, monthlyPayment |-> Over(balance, Int2Num(term)),
                totalPayment |-> balance]>>
        ELSE <<[term |-> term, monthlyPayment |-> monthlyPayment,
                totalPayment |-> Times(monthlyPayment, Int2Num(term))]>>

\* the entry of one term, or <<>> for the term 0 (null, filtered out)
PaymentOption(balance, term, config) ==
    LET annualInterestRate ==
            Plus(Plus(config.baseInterestRate, config.riskFactor),
                 Over(Times(Int2Num(term), config.termIncrementRate), Int2Num(12)))
        monthlyRate == Over(Over(annualInterestRate, Hundred), Int2Num(12))
        growth == Pow(Plus(Int2Num(1), monthlyRate), term)
        monthlyPayment == Over(Times(balance, Times(monthlyRate, growth)), Minus(growth, Int2Num(1)))
    IN  IF term = 0 THEN <<>>
        ELSE IF monthlyRate = Zero
             THEN <<[term |-> term, monthlyPayment |-> Over(balance, Int2Num(term)),
                     totalPayment |-> balance]>>
        ELSE <<[term |-> term, monthlyPayment |-> monthlyPayment,
                totalPayment |-> Times(monthlyPayment, Int2Num(term))]>>

\* config.terms.map(...).filter(opt => opt !== null), from term i on
RECURSIVE PaymentOptionsFrom(_, _, _)
PaymentOptionsFrom(balance, config, i) ==
    IF i > Len(config.terms) THEN <<>>
    ELSE PaymentOption(balance, config.terms[i], config) \o PaymentOptionsFrom(balance, config, i + 1)

\* calculatePaymentOptions without the check of the balance
calculatePaymentOptions_NoBalanceCheck(total, config) ==
    IF ~config.enabled \/ Len(config.terms) = 0 THEN <<>>
    ELSE PaymentOptionsFrom(Minus(total, config.downPayment), config, 1)

\* DocumentPreview: calculatePaymentOptions(total, config)
calculatePaymentOptions(total, config) ==
    IF ~config.enabled \/ Len(config.terms) = 0 THEN <<>>
    ELSE LET balance == Minus(total, config.downPayment)
         IN  IF ~IsNaN(balance) /\ ~Gt(balance, Zero) THEN <<>>
             ELSE PaymentOptionsFrom(balance, config, 1)

\* the totals and the payment plans the function is called with
PaymentTotals == {Zero, Int2Num(100), Int2Num(1000), NaN}
PaymentPlans ==
    [enabled : BOOLEAN,
     downPayment : {Zero, Int2Num(100), Int2Num(2000)},
     terms : SeqUpTo(0..3, MaxTerms),
     baseInterestRate : {Zero, Int2Num(600)},
     riskFactor : {Zero, Int2Num(600)},
     termIncrementRate : {Zero, Int2Num(1200)}]

\* DocumentPreview: const paymentOptions = useMemo(() => calculatePaymentOptions(...)).
\* The function is pure: each behaviour applies it to one input.
CallCalculatePaymentOptions(total, config) ==
    /\ lastRequest = <<>>
    /\ lastRequest' = <<[op |-> "calculatePaymentOptions", total |-> total, config |-> config,
                         result |-> calculatePaymentOptions(total, config)]>>
    /\ UNCHANGED <<documentState, activeCategoryId, companies, activeCompanyId, currentView,
                   columnDefinitions, columnOrder, timeZone, folioCall, saveCall, requests, pdf>>

\* the calls: every total with every plan, and a plan of twelve months
\* without interest on 11000 with 1000 down
PaymentCalls ==
    (PaymentTotals \X PaymentPlans)
        \cup {<<Int2Num(11000),
                [enabled |-> TRUE, downPayment |-> Int2Num(1000), terms |-> <<12>>,
                 baseInterestRate |-> Zero, riskFactor |-> Zero, termIncrementRate |-> Zero]>>}

NextPayment == \E call \in PaymentCalls : CallCalculatePaymentOptions(call[1], call[2])

SpecPayment == Init /\ [][NextPayment]_vars

-----------------------------------------------------------------------------
(* The roman page number of the footer: romanize *)

\* the largest page number of a roman numeral
MaxPage == 3999

\* the key table without the subtractive forms (IIII for IV, VIIII for IX, ...)
romanizeKey_Additive ==
    <<<<>>, <<"C">>, <<"C", "C">>, <<"C", "C", "C">>, <<"C", "C", "C", "C">>, <<"D">>, <<"D", "C">>, <<"D", "C", "C">>, <<"D", "C", "C", "C">>, <<"D", "C", "C", "C", "C">>,
      <<>>, <<"X">>, <<"X", "X">>, <<"X", "X", "X">>, <<"X", "X", "X", "X">>, <<"L">>, <<"L", "X">>, <<"L", "X", "X">>, <<"L", "X", "X", "X">>, <<"L", "X", "X", "X", "X">>,
      <<>>, <<"I">>, <<"I", "I">>, <<"I", "I", "I">>, <<"I", "I", "I", "I">>, <<"V">>, <<"V", "I">>, <<"V", "I", "I">>, <<"V", "I", "I", "I">>, <<"V", "I", "I", "I", "I">>>>

\* key: the numerals of the hundreds, of the tens and of the units
romanizeKey ==
    <<<<>>, <<"C">>, <<"C", "C">>, <<"C", "C", "C">>, <<"C", "D">>, <<"D">>, <<"D", "C">>, <<"D", "C", "C">>, <<"D", "C", "C", "C">>, <<"C", "M">>,
      <<>>, <<"X">>, <<"X", "X">>, <<"X", "X", "X">>, <<"X", "L">>, <<"L">>, <<"L", "X">>, <<"L", "X", "X">>, <<"L", "X", "X", "X">>, <<"X", "C">>,
      <<>>, <<"I">>, <<"I", "I">>, <<"I", "I", "I">>, <<"I", "V">>, <<"V">>, <<"V", "I">>, <<"V", "I", "I">>, <<"V", "I", "I", "I">>, <<"I", "X">>>>

\* Array(n + 1).join(str)
RECURSIVE Repeat(_, _)
Repeat(str, n) == IF n = 0 THEN <<>> ELSE str \o Repeat(str, n - 1)

\* +digits.join("") of the digits that are left ("" gives 0)
RECURSIVE JoinedNumber(_)
JoinedNumber(digits) ==
    IF digits = <<>> THEN 0
    ELSE JoinedNumber(SubSeq(digits, 1, Len(digits) - 1)) * 10 + DigitValue(digits[Len(digits)])

\* while (i--) roman = (key[+digits.pop() + (i * 10)] || "") + roman;
\* a pop of the empty array gives undefined, and key[NaN] is undefined
RECURSIVE romanizeLoop(_, _, _)
romanizeLoop(digits, i, roman) ==
    IF i = 0 THEN [digits |-> digits, roman |-> roman]
    ELSE IF digits = <<>> THEN romanizeLoop(digits, i - 1, roman)
    ELSE romanizeLoop(SubSeq(digits, 1, Len(digits) - 1), i - 1,
                      romanizeKey[DigitValue(digits[Len(digits)]) + ((i - 1) * 10) + 1] \o roman)

\* romanize(num) of a non-negative integer
romanize(num) ==
    LET loop == romanizeLoop(toString(num), 3, <<>>)
        upper == Repeat(<<"M">>, JoinedNumber(loop.digits)) \o loop.roman
    IN  [k \in 1..Len(upper) |-> toLowerCase(upper[k])]

\* drawFooter asks for the numeral of a page
CallRomanize(num) ==
    /\ lastRequest = <<>>
    /\ lastRequest' = <<[op |-> "romanize", num |-> num, result |-> romanize(num)]>>
    /\ UNCHANGED <<documentState, activeCategoryId, companies, activeCompanyId, currentView,
                   columnDefinitions, columnOrder, timeZone, folioCall, saveCall, requests, pdf>>

NextRoman == \E num \in 1..MaxPage : CallRomanize(num)

SpecRoman == Init /\ [][NextRoman]_vars

-----------------------------------------------------------------------------
(* The terms of the payment plan: TermsInput *)

\* seq.sort((a, b) => a - b) on a list whose last element alone may be out of place
RECURSIVE SortLast(_)
SortLast(seq) ==
    IF Len(seq) < 2 \/ seq[Len(seq) - 1] <= seq[Len(seq)] THEN seq
    ELSE Append(SortLast(SubSeq(seq, 1, Len(seq) - 2) \o <<seq[Len(seq)]>>), seq[Len(seq) - 1])

\* [...terms, termValue] without the sort
WithTerm_Unsorted(terms, termValue) == Append(terms, termValue)

\* [...terms, termValue].sort((a, b) => a - b)
WithTerm(terms, termValue) == SortLast(Append(terms, termValue))

\* what the number input of the new term holds
NewTerms ==
    {<<"1">>, <<"2">>, <<"3">>, <<"1", "2">>, <<"2", ".", "5">>, <<"0">>, <<"-", "1">>, <<>>}

\* TermsInput: handleAddTerm
handleAddTerm(newTerm) ==
    /\ currentView = "editor"
    /\ LET termValue == parseInt(newTerm)
           terms == documentState.paymentPlan.terms
           request == [op |-> "handleAddTerm", newTerm |-> newTerm, before |-> terms]
       IN  IF ~IsNaN(termValue) /\ Gt(termValue, Zero) /\ ~Includes(terms, termValue.num)
           THEN /\ Len(terms) < MaxTerms
                /\ Answer(request, [documentState EXCEPT !.paymentPlan.terms = WithTerm(terms, termValue.num)])
           ELSE Answer(request, documentState)

\* TermsInput: handleRemoveTerm(termToRemove)
handleRemoveTerm(termToRemove) ==
    /\ currentView = "editor"
    /\ Includes(documentState.paymentPlan.terms, termToRemove)
    /\ Answer([op |-> "handleRemoveTerm", newTerm |-> <<>>, before |-> documentState.paymentPlan.terms],
              [documentState EXCEPT !.paymentPlan.terms = SelectSeq(@, LAMBDA t : t # termToRemove)])

NextTerms ==
    \/ \E view \in {"editor", "settings", "profile"} : setCurrentView(view)
    \/ \E newTerm \in NewTerms : handleAddTerm(newTerm)
    \/ \E termToRemove \in 1..12 : handleRemoveTerm(termToRemove)

SpecTerms == Init /\ [][NextTerms]_vars

-----------------------------------------------------------------------------
(* Properties of the pricing engine *)

Categories == documentState.categories

\* the raw subtotal as the sum of quantity x unitPrice over all items of all subcategories
RawOf(category) ==
    LET items == CategoryItems(category)
    IN  Sum([k \in 1..Len(items) |-> Times(Number(items[k].quantity), Number(items[k].unitPrice))])

\* raw for 'none', raw x (1 + markupValue/100) for 'percentage', raw + markupValue for 'fixed'
WithMarkupOf(category) ==
    CASE category.markupType = "none" -> RawOf(category)
      [] category.markupType = "percentage" ->
            Times(RawOf(category), Plus(Int2Num(1), Rat(category.markupValue, 100)))
      [] category.markupType = "fixed" -> Plus(RawOf(category), Int2Num(category.markupValue))

\* C1: calculateTotals returns subtotal = the sum over all categories of the
\* category total with markup, tax = the sum over the categories with applyVat
\* of that total x vatRate/100 when showVat is on (0 otherwise), and
\* total = subtotal + tax.
C1_TotalsFormula ==
    LET totals == calculateTotals(documentState)
        subtotal == Sum([i \in 1..Len(Categories) |-> WithMarkupOf(Categories[i])])
        tax == Sum([i \in 1..Len(Categories) |->
                      IF documentState.showVat /\ Categories[i].applyVat
                      THEN Times(WithMarkupOf(Categories[i]), Rat(documentState.vatRate, 100))
                      ELSE Zero])
    IN  /\ totals.subtotal = subtotal
        /\ totals.tax = tax
        /\ totals.total = Plus(subtotal, tax)

\* two categories with items, a percentage markup with VAT in the first and a
\* fixed markup without VAT in the second, and tax charged
C1_Witness ==
    /\ Len(Categories) = 2
    /\ Categories[1].markupType = "percentage" /\ Categories[1].markupValue = 10
    /\ Categories[2].markupType = "fixed" /\ Categories[2].markupValue = 10
    /\ Categories[1].applyVat /\ ~Categories[2].applyVat
    /\ Gt(CategoryRawSubtotal(Categories[1]), Zero)
    /\ Gt(CategoryRawSubtotal(Categories[2]), Zero)
    /\ documentState.showVat
    /\ calculateTotals(documentState).tax = Rat(88, 10)
    /\ calculateTotals(documentState).total = Rat(1238, 10)

\* C2: the preview and the exporter never disagree: every monetary figure the
\* exporter draws equals the one the preview shows, and both show a category
\* totals block for the same categories.
C2_PreviewEqualsExport == PreviewFigures(documentState) = ExportFigures(documentState)

\* the sum of the item VAT figures of a category
ItemVatSum(doc, category) ==
    LET items == CategoryItems(category)
        raw == CategoryRawSubtotal(category)
    IN  Sum([k \in 1..Len(items) |-> PreviewItemVat(doc, category, items[k], raw)])

\* the sum of the markup attributed to the items of a category
ItemMarkupSum(category) ==
    LET items == CategoryItems(category)
        raw == CategoryRawSubtotal(category)
    IN  Sum([k \in 1..Len(items) |-> PreviewItemMarkup(category, items[k], raw)])

\* C3 as stated: in every category the item VAT figures sum to the category
\* VAT that enters the document tax.
C3_ItemVatReconciles ==
    \A i \in 1..Len(Categories) :
        ItemVatSum(documentState, Categories[i]) = CategoryTax(documentState, Categories[i])

\* C3 as amended: the item VAT figures sum to the category VAT in every
\* category whose markup is not 'fixed' or whose raw subtotal is positive; in
\* a 'fixed' category whose raw subtotal is not positive they sum to the VAT
\* of the raw subtotal alone.
C3_ItemVatReconcilesAmended ==
    \A i \in 1..Len(Categories) :
        LET category == Categories[i]
            raw == CategoryRawSubtotal(category)
        IN  IF category.markupType # "fixed" \/ Gt(raw, Zero)
            THEN ItemVatSum(documentState, category) = CategoryTax(documentState, category)
            ELSE ItemVatSum(documentState, category) =
                    (IF documentState.showVat /\ category.applyVat
                     THEN Times(raw, Rat(documentState.vatRate, 100))
                     ELSE Zero)

\* a 'fixed' category of two items with a positive raw subtotal, charged VAT
C3_Witness ==
    \E i \in 1..Len(Categories) :
        /\ Categories[i].markupType = "fixed" /\ Categories[i].markupValue = 10
        /\ Len(CategoryItems(Categories[i])) = 2
        /\ CategoryRawSubtotal(Categories[i]) = Int2Num(100)
        /\ documentState.showVat /\ Categories[i].applyVat /\ documentState.vatRate = 16
        /\ ItemVatSum(documentState, Categories[i]) = Rat(176, 10)

\* C4 as stated: in every category with a fixed markup the markup attributed
\* to the items sums to the category's markupValue.
C4_FixedMarkupReconciles ==
    \A i \in 1..Len(Categories) :
        Categories[i].markupType = "fixed" =>
            ItemMarkupSum(Categories[i]) = MarkupValueOf(Categories[i])

\* C4 as amended: in a category with a fixed markup the markup attributed to
\* the items sums to the markupValue when the raw subtotal is positive, and to
\* 0 when it is not.
C4_FixedMarkupReconcilesAmended ==
    \A i \in 1..Len(Categories) :
        Categories[i].markupType = "fixed" =>
            ItemMarkupSum(Categories[i]) =
                (IF Gt(CategoryRawSubtotal(Categories[i]), Zero)
                 THEN MarkupValueOf(Categories[i]) ELSE Zero)

\* a 'fixed' category of two priced items
C4_Witness ==
    \E i \in 1..Len(Categories) :
        /\ Categories[i].markupType = "fixed" /\ Categories[i].markupValue = 10
        /\ Len(CategoryItems(Categories[i])) = 2
        /\ CategoryRawSubtotal(Categories[i]) = Int2Num(100)
        /\ ItemMarkupSum(Categories[i]) = Int2Num(10)

\* C5: in a category with a fixed markup whose raw subtotal is 0 the markup
\* of every item is exactly 0 in the editor, the preview and the export, and
\* what is drawn is neither NaN nor infinite.
C5_ZeroSubtotalZeroMarkup ==
    \A i \in 1..Len(Categories) :
        LET category == Categories[i]
            raw == CategoryRawSubtotal(category)
            items == CategoryItems(category)
        IN  (category.markupType = "fixed" /\ raw = Zero) =>
                \A k \in 1..Len(items) :
                    /\ PreviewItemMarkup(category, items[k], raw) = Zero
                    /\ ExportItemMarkup(category, items[k], raw) = Zero
                    /\ (currentView = "editor" /\ i = activeCategoryId) =>
                            EditorItemMarkup(category, items[k], raw) = Zero

\* the editor shows a 'fixed' category whose two items cancel to a raw subtotal of 0
C5_Witness ==
    /\ currentView = "editor"
    /\ activeCategoryId # 0
    /\ activeCategory.markupType = "fixed" /\ activeCategory.markupValue = 10
    /\ CategoryRawSubtotal(activeCategory) = Zero
    /\ \E k \in 1..Len(CategoryItems(activeCategory)) :
            ItemSubtotal(CategoryItems(activeCategory)[k]) = Int2Num(50)

\* the document with the markupDistribution of its categories replaced by f
WithDistributions(doc, f) ==
    [doc EXCEPT !.categories =
        [i \in 1..Len(doc.categories) |-> [doc.categories[i] EXCEPT !.markupDistribution = f[i]]]]

\* the computed figures of one category: its total with markup, its VAT, and
\* the markup and VAT attributed to each item
CategoryFigures(doc, category) ==
    LET items == CategoryItems(category)
        raw == CategoryRawSubtotal(category)
    IN  [total |-> CategoryTotalWithMarkups(category),
         vat |-> CategoryTax(doc, category),
         items |-> [k \in 1..Len(items) |->
                      <<PreviewItemMarkup(category, items[k], raw),
                        PreviewItemVat(doc, category, items[k], raw)>>]]

\* every computed figure of a document
AllFigures(doc) ==
    [totals |-> calculateTotals(doc),
     categories |-> [i \in 1..Len(doc.categories) |-> CategoryFigures(doc, doc.categories[i])]]

\* C6: markupDistribution has no effect on any figure: a document that
\* differs from the working document only in markupDistribution flags has the
\* same totals, category totals and per-item markup and VAT.
C6_DistributionHasNoEffect ==
    LET figures == AllFigures(documentState)
    IN  \A f \in [1..Len(Categories) -> MarkupDistributions] :
            WithDistributions(documentState, f) # documentState =>
                AllFigures(WithDistributions(documentState, f)) = figures

\* a priced category with a 10% markup distributed 'per-item'
C6_Witness ==
    \E i \in 1..Len(Categories) :
        /\ Categories[i].markupType = "percentage" /\ Categories[i].markupValue = 10
        /\ Categories[i].markupDistribution = "per-item"
        /\ CategoryRawSubtotal(Categories[i]) = Int2Num(100)
        /\ documentState.showVat /\ Categories[i].applyVat /\ documentState.vatRate = 16

-----------------------------------------------------------------------------
(* Properties of folio numbering *)

Max(a, b) == IF a > b THEN a ELSE b

\* C7: a save sets the active company's counter for the document's type to
\* the maximum of the stored counter and the document's folio sequence, and
\* leaves every other counter of every company as it was.
C7_SaveSetsCounterToMax ==
    saveCall # <<>> =>
        LET call == saveCall[1]
        IN  companies = [call.before EXCEPT
                ![call.company].folioCounters[call.docType] = Max(@, call.sequence)]

\* the day of the year of a date, 1 January being day 1
DayOfYear(date) == DaysBeforeMonth(date.year, date.month) + date.day

\* prefix, the sequence padded to 6 digits, '-', the 2-digit year and the
\* 3-digit day of the year
ExpectedFolio(prefix, sequence, date) ==
    prefix \o padStart(toString(sequence), 6, "0") \o <<"-">>
           \o SliceLast2(toString(date.year)) \o padStart(toString(DayOfYear(date)), 3, "0")

\* C8: generateFolio(prefix, sequence, date) is the prefix, the sequence
\* padded to 6 digits, '-', the 2-digit year and the 3-digit day of the year
\* of the date (1 January = 001); ('COT-', 7, 2024-03-05) gives
\* 'COT-000007-24065' and ('X-', 1, 2024-01-01) gives 'X-000001-24001'.
C8_FolioFormat ==
    folioCall # <<>> =>
        LET call == folioCall[1]
        IN  /\ call.result = ExpectedFolio(call.prefix, call.sequence, call.date)
            /\ (call.prefix = P_COT /\ call.sequence = 7
                /\ call.date = [year |-> 2024, month |-> 3, day |-> 5, hour |-> 0])
                    => call.result = <<"C","O","T","-","0","0","0","0","0","7","-","2","4","0","6","5">>
            /\ (call.prefix = <<"X", "-">> /\ call.sequence = 1
                /\ call.date = [year |-> 2024, month |-> 1, day |-> 1, hour |-> 0])
                    => call.result = <<"X","-","0","0","0","0","0","1","-","2","4","0","0","1">>

\* C9: the folio sequence of a newly created document is the counter that
\* was stored for its type immediately before the creation.
C9_NewDocumentUsesStoredCounter ==
    [][(\E now \in Nows : handleNewDocument(now)) =>
            documentState'.sequence = ActiveCompany.folioCounters[documentState'.docType]]_vars

-----------------------------------------------------------------------------
(* Properties of the column registry *)

\* the input types compatible with a data type
CompatibleInputs(dataType) ==
    CASE dataType = "string" -> {"text", "textarea", "select"}
      [] dataType = "number" -> {"number", "select"}
      [] dataType = "date" -> {"date"}
      [] dataType = "time" -> {"time"}
      [] dataType = "boolean" -> {"checkbox"}
      [] dataType = "image" -> {"file"}

\* the first input type compatible with a data type
FirstCompatibleInput(dataType) ==
    CASE dataType = "string" -> "text"
      [] dataType = "number" -> "number"
      [] dataType = "date" -> "date"
      [] dataType = "time" -> "time"
      [] dataType = "boolean" -> "checkbox"
      [] dataType = "image" -> "file"

\* every column's input type is compatible with its data type
AllInputTypesCompatible ==
    \A key \in DOMAIN columnDefinitions :
        columnDefinitions[key].inputType \in CompatibleInputs(columnDefinitions[key].dataType)

\* a step that changes a column's data type keeps an input type that is
\* still compatible and otherwise sets the first compatible one
DataTypeChangeRepairsInput ==
    \A key \in DOMAIN columnDefinitions \cap DOMAIN columnDefinitions' :
        columnDefinitions'[key].dataType # columnDefinitions[key].dataType =>
            columnDefinitions'[key].inputType =
                IF columnDefinitions[key].inputType \in CompatibleInputs(columnDefinitions'[key].dataType)
                THEN columnDefinitions[key].inputType
                ELSE FirstCompatibleInput(columnDefinitions'[key].dataType)

\* C10: after any sequence of registry mutations every column's inputType is
\* compatible with its dataType, and a dataType change that makes the current
\* inputType incompatible sets inputType to the first compatible option.
C10_InputTypeCompatible ==
    [](AllInputTypesCompatible) /\ [][DataTypeChangeRepairsInput]_vars

\* the quantity column turned boolean (its number input was forced to a
\* checkbox), next to an added and an imported column
C10_Witness ==
    /\ columnDefinitions[K_quantity].dataType = "boolean"
    /\ columnDefinitions[K_quantity].inputType = "checkbox"
    /\ \E key \in DOMAIN columnDefinitions \ InitialKeys :
            columnDefinitions[key].dataType = "string" /\ columnDefinitions[key].inputType = "select"
    /\ ImportKeys \subseteq DOMAIN columnDefinitions

\* the key of each label of the model: the trimmed label in lower case with
\* '_' for every character that is neither a letter nor a digit
DerivedKey(label) ==
    CASE label = <<" ","S","k","u"," ","1">> -> <<"s","k","u","_","1">>
      [] label = <<"V","a","t">> -> <<"v","a","t">>
      [] label = <<" ">> -> <<>>
      [] label = <<"C","o","n","s","t","r","u","c","t","o","r">> ->
            <<"c","o","n","s","t","r","u","c","t","o","r">>

\* C11: adding a column with an empty label or with a derived key that the
\* registry already holds is rejected and leaves the registry as it was;
\* otherwise exactly one entry is added, under the derived key, and no
\* existing entry changes.
C11_AddColumnKeyOrReject ==
    (lastRequest # <<>> /\ lastRequest[1].op = "handleAddColumn") =>
        LET call == lastRequest[1]
            key == DerivedKey(call.label)
        IN  IF key = <<>> \/ key \in DOMAIN call.before
            THEN columnDefinitions = call.before
            ELSE /\ DOMAIN columnDefinitions = DOMAIN call.before \cup {key}
                 /\ \A k \in DOMAIN call.before : columnDefinitions[k] = call.before[k]

\* C12: in every reachable state of the registry the definitions of the
\* derived keys total, markup and vat have isEditable = false.
C12_DerivedKeysNotEditable ==
    \A key \in {K_total, K_markup, K_vat} :
        key \in DOMAIN columnDefinitions => ~columnDefinitions[key].isEditable

-----------------------------------------------------------------------------
(* Properties of the suggestion service and of the stored items *)

\* C13: every item schema sent to the suggestion service, for the generation
\* for one category, the bulk generation and the image import alike, leaves
\* out the derived keys total, markup and vat.
C13_SchemaExcludesDerivedKeys ==
    \A i \in 1..Len(requests) :
        requests[i].kind \in {"items", "bulk", "image"} =>
            requests[i].schema \cap {K_total, K_markup, K_vat} = {}

\* C14: no item held in the document state carries a stored value under the
\* keys total, markup or vat.
C14_NoStoredDerivedValues ==
    \A i \in 1..Len(documentState.categories) :
        LET items == CategoryItems(documentState.categories[i])
        IN  \A k \in 1..Len(items) : items[k].keys \cap {K_total, K_markup, K_vat} = {}

\* C15: every category of the document has at least one subcategory, and a
\* request to delete the only subcategory of a category is rejected and
\* leaves the document as it was.
C15_AtLeastOneSubcategory ==
    /\ \A i \in 1..Len(documentState.categories) :
            Len(documentState.categories[i].subcategories) >= 1
    /\ (lastRequest # <<>> /\ lastRequest[1].op = "handleDeleteSubcategory") =>
            /\ documentState = lastRequest[1].before
            /\ lastRequest[1].alert

\* the only subcategory of a category added from the settings page was asked
\* to be deleted
C15_Witness ==
    /\ lastRequest # <<>>
    /\ lastRequest[1].op = "handleDeleteSubcategory"
    /\ lastRequest[1].category = 2
    /\ Len(documentState.categories[2].subcategories) = 1
    /\ documentState.categories[1].subcategories[1].items # <<>>

\* a continuation has just run on an answer
JustSettled == lastRequest # <<>> /\ lastRequest[1].op = "settled"

\* C16: a suggestion-service call does not modify the document when it
\* starts, and a call that fails leaves the document as it was and surfaces
\* an error message.
C16_CallLeavesDocumentUntilSuccess ==
    /\ [][Len(requests') > Len(requests) => documentState' = documentState]_vars
    /\ []((JustSettled /\ ~lastRequest[1].response.ok) =>
            /\ documentState = lastRequest[1].before
            /\ lastRequest[1].alert)

\* C17: the continuation of a request that was started for another document
\* than the current one, or that runs after the editor view was left, does
\* not modify the current document.
C17_CanceledByNavigation ==
    (JustSettled /\ (\/ lastRequest[1].request.document # lastRequest[1].before.id
                     \/ currentView # "editor")) =>
        documentState = lastRequest[1].before

\* the answer does not conform to the schema of the request: its root is not
\* what was asked for (an array of items for one category, an object keyed by
\* category name for several), or an item lacks a required field
NonConforming(request, response) ==
    /\ response.ok
    /\ request.kind \in {"items", "bulk"}
    /\ \/ response.root # (IF request.kind = "items" THEN "array" ELSE "object")
       \/ \E k \in 1..Len(response.items) :
            ~({K_description, K_quantity, K_unitPrice, K_unit} \subseteq response.items[k].keys)

\* C18: an answer of the suggestion service that does not conform to the
\* requested schema surfaces a message and inserts nothing into the document.
C18_NonConformingIsRecoverable ==
    (JustSettled /\ NonConforming(lastRequest[1].request, lastRequest[1].response)) =>
        /\ lastRequest[1].alert
        /\ documentState = lastRequest[1].before

\* el was laid out for ticket k (0: outside the annex tickets)
LaidOut(el, k) ==
    \E i \in 1..Len(pdf.laidOut) : pdf.laidOut[i].el = el /\ pdf.laidOut[i].ticket = k

\* a finished export saved the file last, skipped exactly the images that
\* failed, and laid out everything else
ExportedAll ==
    pdf.pc = "done" =>
        /\ pdf.laidOut[Len(pdf.laidOut)].el = "save"
        /\ LaidOut("logo", 0) <=> pdf.input.logo = "image"
        /\ LaidOut("couponImage", 0) <=> pdf.input.coupon = "image"
        /\ LaidOut("couponText", 0) <=> pdf.input.coupon # "none"
        /\ LaidOut("signature", 0) <=> pdf.input.signature \in {"image", "type"}
        /\ LaidOut("signatureNames", 0) <=> pdf.input.signature # "none"
        /\ LaidOut("header", 0) /\ LaidOut("body", 0) /\ LaidOut("totals", 0) /\ LaidOut("footer", 0)
        /\ \A k \in 1..Len(pdf.input.tickets) :
            /\ LaidOut("ticketTitle", k)
            /\ LaidOut("annexImage", k) <=> pdf.input.tickets[k] = "image"
            /\ LaidOut("annexError", k) <=> pdf.input.tickets[k] = "broken"
            /\ LaidOut("ticketText", k) <=> pdf.input.tickets[k] = "interpret"

\* C19: every export run reaches the final save whichever images fail to
\* decode; a failed logo, coupon image or signature is skipped, a failed annex
\* image is replaced by an error line, and the rest is laid out.
C19_ExportReachesSave ==
    /\ [](ExportedAll)
    /\ (pdf.pc \notin {"idle", "done"}) ~> (pdf.pc = "done")

\* calculatePaymentOptions has just been called
PaymentCalled == lastRequest # <<>> /\ lastRequest[1].op = "calculatePaymentOptions"

\* balance = total - downPayment is less than or equal to 0
BalanceNotPositive(total, config) ==
    LET balance == Minus(total, config.downPayment)
    IN  ~IsNaN(balance) /\ ~Gt(balance, Zero)

\* C20: calculatePaymentOptions returns the empty list when the plan is
\* disabled, or has no terms, or total - downPayment is at most 0, whatever
\* the other inputs are.
C20_NoOptionsWithoutBalance ==
    PaymentCalled =>
        LET total == lastRequest[1].total
            config == lastRequest[1].config
        IN  (~config.enabled \/ config.terms = <<>> \/ BalanceNotPositive(total, config))
                => lastRequest[1].result = <<>>

\* an enabled plan with a term and interest, whose down payment exceeds the total
C20_Witness ==
    /\ PaymentCalled
    /\ lastRequest[1].config.enabled
    /\ lastRequest[1].config.terms = <<2, 3>>
    /\ lastRequest[1].config.baseInterestRate = Int2Num(600)
    /\ lastRequest[1].total = Int2Num(1000)
    /\ lastRequest[1].config.downPayment = Int2Num(2000)
    /\ lastRequest[1].result = <<>>

\* the terms other than 0, in their stored order
NonZeroTerms(terms) == SelectSeq(terms, LAMBDA t : t # 0)

\* (baseInterestRate + riskFactor + t * termIncrementRate / 12) / 100 / 12
MonthlyRate(config, t) ==
    Over(Over(Plus(Plus(config.baseInterestRate, config.riskFactor),
                   Over(Times(Int2Num(t), config.termIncrementRate), Int2Num(12))),
              Int2Num(100)), Int2Num(12))

\* C21: for an enabled plan with terms and a positive balance the result has
\* one entry per term other than 0, in the stored order; at a monthly rate of
\* 0 the entry is balance / t a month and balance in total, and otherwise the
\* total is the monthly payment times t.
C21_OneOptionPerTerm ==
    PaymentCalled =>
        LET total == lastRequest[1].total
            config == lastRequest[1].config
            result == lastRequest[1].result
            balance == Minus(total, config.downPayment)
            terms == NonZeroTerms(config.terms)
        IN  (config.enabled /\ config.terms # <<>> /\ Gt(balance, Zero)) =>
                /\ Len(result) = Len(terms)
                /\ \A k \in 1..Len(terms) :
                    /\ result[k].term = terms[k]
                    /\ IF MonthlyRate(config, terms[k]) = Zero
                       THEN /\ result[k].monthlyPayment = Over(balance, Int2Num(terms[k]))
                            /\ result[k].totalPayment = balance
                       ELSE result[k].totalPayment = Times(result[k].monthlyPayment, Int2Num(terms[k]))

\* twelve months without interest on 11000 with 1000 down: 10000 in total
C21_Witness ==
    /\ PaymentCalled
    /\ lastRequest[1].total = Int2Num(11000)
    /\ lastRequest[1].config.terms = <<12>>
    /\ lastRequest[1].result =
            <<[term |-> 12, monthlyPayment |-> Rat(2500, 3), totalPayment |-> Int2Num(10000)]>>

\* the number that the text of the number input stands for
TypedNumber(newTerm) ==
    CASE newTerm = <<"1">> -> Int2Num(1)
      [] newTerm = <<"2">> -> Int2Num(2)
      [] newTerm = <<"3">> -> Int2Num(3)
      [] newTerm = <<"1", "2">> -> Int2Num(12)
      [] newTerm = <<"2", ".", "5">> -> Rat(5, 2)
      [] newTerm = <<"0">> -> Zero
      [] newTerm = <<"-", "1">> -> Int2Num(-1)
      [] OTHER -> NaN

\* C22: the stored terms are whole numbers greater than 0 in strictly
\* ascending order, and adding a term that is already there, is no number or
\* is not positive leaves the list as it was.
C22_TermsSortedAndUnique ==
    LET terms == documentState.paymentPlan.terms
    IN  /\ \A k \in 1..Len(terms) : terms[k] \in Nat /\ terms[k] > 0
        /\ \A k \in 1..(Len(terms) - 1) : terms[k] < terms[k + 1]
        /\ (lastRequest # <<>> /\ lastRequest[1].op = "handleAddTerm") =>
            LET typed == TypedNumber(lastRequest[1].newTerm)
            IN  (\/ IsNaN(typed)
                 \/ ~Gt(typed, Zero)
                 \/ \E k \in 1..Len(lastRequest[1].before) : Int2Num(lastRequest[1].before[k]) = typed)
                    => terms = lastRequest[1].before

\* a smaller term was added after a larger one
C22_Witness ==
    /\ lastRequest # <<>>
    /\ lastRequest[1].op = "handleAddTerm"
    /\ lastRequest[1].before = <<12>>
    /\ lastRequest[1].newTerm = <<"3">>
    /\ documentState.paymentPlan.terms = <<3, 12>>

\* applyMarkup has just run
MarkupApplied == lastRequest # <<>> /\ lastRequest[1].op = "applyMarkup"

\* documentSubtotal - thisCategorySubtotal when that is greater than 0, and
\* documentSubtotal otherwise, for category i of doc
MarkupBase(doc, i) ==
    LET documentSubtotal == calculateTotals(doc).subtotal
        difference == Minus(documentSubtotal, CategoryRawSubtotal(doc.categories[i]))
    IN  IF Gt(difference, Zero) THEN difference ELSE documentSubtotal

\* C23: applyMarkup with a base other than 0 appends one item of quantity 1
\* and unitPrice = base to the first subcategory of the active category and
\* adds 1 to its markupApplications, and changes nothing else; no step makes
\* markupApplications smaller.
C23_MarkupAsLineItem ==
    /\ [](MarkupApplied =>
            LET before == lastRequest[1].before
                i == lastRequest[1].category
                base == MarkupBase(before, i)
            IN  base # Zero =>
                    documentState =
                        [before EXCEPT
                            !.categories[i].subcategories[1].items =
                                Append(@, [quantity |-> JsNumber(1),
                                           unitPrice |-> [t |-> "number", n |-> base, s |-> ""],
                                           keys |-> {K_description, K_quantity, K_unitPrice,
                                                     K_unit, K_concept}]),
                            !.categories[i].markupApplications = @ + 1])
    /\ [][\A i \in 1..Len(documentState.categories) :
            documentState'.categories[i].markupApplications
                >= documentState.categories[i].markupApplications]_vars

\* the value an item holds under a key
ItemValue(item, key) ==
    IF key = K_quantity THEN item.quantity
    ELSE IF key = K_unitPrice THEN item.unitPrice
    ELSE item.others[key]

\* 0 for dataType number, false for boolean, the first option for a select
\* input, and the empty text otherwise
ClaimedDefault(key, def) ==
    IF def.dataType = "number" THEN JsNumber(0)
    ELSE IF def.dataType = "boolean" THEN [t |-> "boolean", n |-> Zero, s |-> ""]
    ELSE IF def.inputType = "select" /\ Len(def.options) > 0 THEN JsString(def.options[1])
    ELSE JsString("")

\* the same, but 1 under the key quantity whatever its definition is
QuantityOneDefault(key, def) ==
    IF key = K_quantity THEN JsNumber(1) ELSE ClaimedDefault(key, def)

\* every item that this step appends holds Default(key, definition) under
\* every key of the registry
AddedItemsHold(Default(_, _)) ==
    \A i \in 1..Len(documentState.categories) :
        \A j \in 1..Len(documentState.categories[i].subcategories) :
            LET old == documentState.categories[i].subcategories[j].items
                new == documentState'.categories[i].subcategories[j].items
            IN  Len(new) > Len(old) =>
                    \A k \in (Len(old) + 1)..Len(new) :
                        /\ DOMAIN new[k].others = DOMAIN columnDefinitions \ {K_quantity, K_unitPrice}
                        /\ \A key \in DOMAIN columnDefinitions :
                                ItemValue(new[k], key) = Default(key, columnDefinitions[key])

\* C24 (as stated): a new blank item holds, under every column of the
\* registry, 0 for dataType number, false for boolean, the first option for a
\* select input, and the empty text otherwise.
C24_BlankItemDefaults ==
    [][AddedItemsHold(ClaimedDefault)]_vars

\* C24 (amended): a new blank item holds 1 under quantity and, under every
\* other column of the registry, 0 for dataType number, false for boolean,
\* the first option for a select input, and the empty text otherwise.
C24_BlankItemDefaultsButQuantity ==
    [][AddedItemsHold(QuantityOneDefault)]_vars

\* an item was created while unit was a boolean column, and another one while
\* unit was a text column with a select input
C24_Witness ==
    \E k, m \in 1..Len(documentState.categories[1].subcategories[1].items) :
        LET items == documentState.categories[1].subcategories[1].items
        IN  /\ items[k].others[K_unit].t = "boolean"
            /\ items[m].others[K_unit] = JsString("Pza")
            /\ items[k].quantity = JsNumber(1)

\* the symbols of the standard roman numerals, largest first
RomanSymbols ==
    <<[value |-> 1000, numeral |-> <<"m">>], [value |-> 900, numeral |-> <<"c", "m">>],
      [value |-> 500, numeral |-> <<"d">>], [value |-> 400, numeral |-> <<"c", "d">>],
      [value |-> 100, numeral |-> <<"c">>], [value |-> 90, numeral |-> <<"x", "c">>],
      [value |-> 50, numeral |-> <<"l">>], [value |-> 40, numeral |-> <<"x", "l">>],
      [value |-> 10, numeral |-> <<"x">>], [value |-> 9, numeral |-> <<"i", "x">>],
      [value |-> 5, numeral |-> <<"v">>], [value |-> 4, numeral |-> <<"i", "v">>],
      [value |-> 1, numeral |-> <<"i">>]>>

\* the standard numeral of n: the largest symbol that fits, then the rest
RECURSIVE StandardRoman(_, _)
StandardRoman(n, k) ==
    IF n = 0 THEN <<>>
    ELSE IF RomanSymbols[k].value <= n
         THEN RomanSymbols[k].numeral \o StandardRoman(n - RomanSymbols[k].value, k)
    ELSE StandardRoman(n, k + 1)

\* C25: for every page number from 1 to 3999 romanize gives the standard
\* roman numeral in lower case; 1 gives i, 4 gives iv, 11 gives xi and 3999
\* gives mmmcmxcix.
C25_RomanizeIsStandard ==
    /\ (lastRequest # <<>> /\ lastRequest[1].op = "romanize")
            => lastRequest[1].result = StandardRoman(lastRequest[1].num, 1)
    /\ romanize(1) = <<"i">>
    /\ romanize(4) = <<"i", "v">>
    /\ romanize(11) = <<"x", "i">>
    /\ romanize(3999) = <<"m", "m", "m", "c", "m", "x", "c", "i", "x">>

\* the numeral of page 3999 was asked for
C25_Witness ==
    /\ lastRequest # <<>>
    /\ lastRequest[1].op = "romanize"
    /\ lastRequest[1].num = 3999
    /\ lastRequest[1].result = <<"m", "m", "m", "c", "m", "x", "c", "i", "x">>

\* the bottom content boundary: page height - margin - footer band, 277 mm
BottomBoundary == Mm(A4_HEIGHT - MARGIN - FOOTER_HEIGHT)

\* top-of-content: under the header
TopOfContent == Mm(MARGIN + HEADER_HEIGHT)

\* the trace entry i is a page check (of checkAndAddPage or of the item-row
\* loop) of a block that does not fit above the bottom boundary
CheckExceeds(i) ==
    /\ pdf.laidOut[i].el = "check"
    /\ pdf.laidOut[i].y + pdf.laidOut[i].height > BottomBoundary

\* the header that follows the new page at trace entry i, if it is drawn yet
HeaderAfter(i) == IF Len(pdf.laidOut) > i /\ pdf.laidOut[i + 1].el = "logo" THEN i + 2 ELSE i + 1

\* in the trace so far: a check breaks exactly when the block exceeds the
\* boundary, and otherwise the block is written at the y and on the page of
\* the check; every new page comes right after the footer with the number of
\* the page that is left, and is followed by the header on the next page; after
\* a check that broke, the block is written at top-of-content
PageBreaksInOrder ==
    \A i \in 1..Len(pdf.laidOut) :
        LET t == pdf.laidOut
        IN  /\ (t[i].el = "check" /\ Len(t) > i) =>
                    IF CheckExceeds(i)
                    THEN t[i + 1].el = "footer" /\ Len(t) > i + 1 /\ t[i + 2].el = "addPage"
                    ELSE /\ t[i + 1].el \notin {"footer", "addPage", "logo", "header", "check"}
                         /\ t[i + 1].y = t[i].y
                         /\ t[i + 1].page = t[i].page
            /\ (t[i].el = "check" /\ Len(t) = i) => (pdf.pc = "drawHeader" <=> CheckExceeds(i))
            /\ t[i].el = "addPage" =>
                    /\ i > 1
                    /\ t[i - 1].el = "footer"
                    /\ t[i - 1].page = t[i].page
                    /\ Len(t) = i => (pdf.pc = "drawHeader" /\ pdf.page = t[i].page + 1)
                    /\ Len(t) > i =>
                        /\ t[HeaderAfter(i)].el = "header"
                        /\ t[HeaderAfter(i)].page = t[i].page + 1
                        /\ \A k \in (i + 1)..HeaderAfter(i) : t[k].y = Mm(MARGIN)
                        /\ (Len(t) > HeaderAfter(i) /\ i > 2 /\ t[i - 2].el = "check") =>
                                /\ t[HeaderAfter(i) + 1].y = TopOfContent
                                /\ t[HeaderAfter(i) + 1].page = t[i].page + 1
                                /\ t[HeaderAfter(i) + 1].el \notin {"footer", "addPage", "check"}

\* drawing the header leaves y at top-of-content and the page as it is
HeaderResetsY ==
    pdf.pc = "drawHeader" => (pdf'.y = TopOfContent /\ pdf'.page = pdf.page)

\* C26: the page check of a block of height h breaks exactly when y + h
\* exceeds the bottom content boundary of 277 mm, and otherwise leaves y and
\* page unchanged; every page break, the one of the item-row loop included,
\* draws the footer with the current page number, starts a new page, adds 1 to
\* page, draws the header again and resets y to top-of-content before the
\* block is written.
C26_PageBreakOrder ==
    /\ [](PageBreaksInOrder)
    /\ [][HeaderResetsY]_vars

\* a finished export whose item-row loop broke the page before a row of five
\* lines, and that has a check that did not break
C26_Witness ==
    /\ pdf.pc = "done"
    /\ \E i \in 1..Len(pdf.laidOut) :
            /\ CheckExceeds(i)
            /\ pdf.laidOut[i].height = rowHeight(5)
            /\ \E k \in i..Len(pdf.laidOut) :
                    /\ pdf.laidOut[k].el = "row"
                    /\ pdf.laidOut[k].page = pdf.laidOut[i].page + 1
                    /\ pdf.laidOut[k - 1].el = "columnHeader"
    /\ \E i \in 1..Len(pdf.laidOut) : pdf.laidOut[i].el = "check" /\ ~CheckExceeds(i)

\* C27: whenever the exporter draws an item row of height rowHeight at the
\* vertical position y, y + rowHeight does not exceed the bottom content
\* boundary, for every document and every row height.
C27_RowsAboveBoundary ==
    \A i \in 1..Len(pdf.laidOut) :
        pdf.laidOut[i].el = "row" =>
            pdf.laidOut[i].y + pdf.laidOut[i].height <= BottomBoundary

\* the footers of the trace
Footers == SelectSeq(pdf.laidOut, LAMBDA e : e.el = "footer")

\* C28: when an export run finishes, its pages are numbered 1..N from 1 on,
\* and the footer was drawn exactly once on each page with the number of that
\* page, the last page of the quotation and the last page of the annex
\* included; the annex starts on a new page after the footer of the quotation.
C28_OneFooterPerPage ==
    pdf.pc = "done" =>
        LET t == pdf.laidOut
        IN  /\ t[1].page = 1
            /\ \A i \in 1..(Len(t) - 1) : t[i + 1].page \in {t[i].page, t[i].page + 1}
            /\ t[Len(t)].page = pdf.page
            /\ Len(Footers) = pdf.page
            /\ \A k \in 1..Len(Footers) : Footers[k].page = k
            /\ \A i \in 1..(Len(t) - 1) :
                    t[i].el = "footer" => t[i + 1].el \in {"addPage", "save"}
            /\ Len(pdf.input.tickets) > 0 =>
                    \E i \in 4..Len(t) :
                        /\ t[i].el = "annexTitle"
                        /\ t[i - 1].el = "header"
                        /\ \E k \in 2..(i - 2) :
                                /\ t[k].el = "addPage"
                                /\ t[k - 1].el = "footer"
                                /\ t[k - 1].page = t[i].page - 1
                                /\ t[k - 2].el \in {"totals", "signatureNames"}
                                /\ \A m \in (k + 1)..(i - 1) : t[m].el \in {"logo", "header"}

\* a finished export of four pages or more with an annex that broke the page
C28_Witness ==
    /\ pdf.pc = "done"
    /\ pdf.page >= 4
    /\ \E i \in 1..Len(pdf.laidOut) : CheckExceeds(i) /\ pdf.laidOut[i].ticket > 0

\* the sequence that the regeneration effect and handleSaveDocument read back
\* from a folio: the second '-'-separated field, parsed as an integer
SequenceReadBack(docNumber) ==
    LET parts == split(docNumber, "-")
    IN  IF Len(parts) < 2 THEN NaN ELSE parseInt(parts[2])

\* C29: for every folio prefix a company can configure, the sequence read
\* back from the folio of the document equals the sequence the folio was
\* generated with, so that regenerations and saves leave it unchanged.
C29_SequenceReadBack ==
    /\ ~IsNaN(SequenceReadBack(documentState.docNumber))
    /\ SequenceReadBack(documentState.docNumber).num = documentState.sequence

\* C30: in every reachable document state a category whose applyVat flag is
\* false has its vat column hidden: visibleColumns.vat is not true.
C30_NoVatColumnWithoutVat ==
    \A i \in 1..Len(documentState.categories) :
        LET category == documentState.categories[i]
        IN  ~category.applyVat =>
                ~(K_vat \in DOMAIN category.visibleColumns /\ category.visibleColumns[K_vat])

====
